---- MODULE Spec2Model ----
(***************************************************************************)
(* The conversational loan assistant: the session store and orchestrator   *)
(* (masterAgent.ts), the stage machine (salesAgent.ts, verificationAgent.ts)*)
(* and the underwriting engine (underwritingAgent.ts, pdfService.ts).       *)
(*                                                                         *)
(* Units: amounts are whole rupees; annual interest rates are kept in      *)
(* tenths of a percent (12.5% is 125), so that base rate + 0.5 is exact.   *)
(***************************************************************************)
EXTENDS Integers, Sequences, FiniteSets, TLC

(***************************************************************************)
(* Exact arithmetic for the amortisation formula.  The code works in       *)
(* doubles; here (1+r)^n is a natural number kept as a little-endian        *)
(* sequence of limbs, and quotients are found by comparing products.       *)
(***************************************************************************)
BASE == 10000

Limb(x, i) == IF i >= 1 /\ i <= Len(x) THEN x[i] ELSE 0

Max2(a, b) == IF a >= b THEN a ELSE b

RECURSIVE MulFrom(_, _, _, _)
\* the limbs from position i on of x * k + c * BASE^(i-1), for k below 2^31 / BASE
MulFrom(x, i, k, c) ==
  IF i > Len(x)
  THEN IF c = 0 THEN <<>> ELSE <<c % BASE>> \o MulFrom(x, i + 1, k, c \div BASE)
  ELSE LET t == x[i] * k + c
       IN  <<t % BASE>> \o MulFrom(x, i + 1, k, t \div BASE)

\* x * k for a limb sequence x and a small natural k
MulSmall(x, k) == MulFrom(x, 1, k, 0)

RECURSIVE BigPow(_, _)
BigPow(q, n) == IF n = 0 THEN <<1>> ELSE MulSmall(BigPow(q, n - 1), q)

RECURSIVE SubFrom(_, _, _, _)
\* the limbs from position i on of x - y, with borrow b into position i
SubFrom(x, y, i, b) ==
  IF i > Len(x) THEN <<>>
  ELSE LET t == x[i] - Limb(y, i) - b
       IN  IF t < 0 THEN <<t + BASE>> \o SubFrom(x, y, i + 1, 1)
                    ELSE <<t>> \o SubFrom(x, y, i + 1, 0)

\* x - y for x >= y
BigSub(x, y) == SubFrom(x, y, 1, 0)

\* a*X - (b*Y + Z) is the sum over i of d(i) * BASE^(i-1), each d(i) smaller in
\* size than SignLimit(a, b) * (BASE - 1); once the sum of the terms from the top
\* down to i exceeds SignLimit(a, b), the terms below cannot change its sign
SignLimit(a, b) == 2 * BASE + a \div BASE + b \div BASE + 1

RECURSIVE CmpMulAdd(_, _, _, _, _, _, _)
\* the sign of a*X - (b*Y + Z) for a, b below 4 * BASE^2, from limb i downwards,
\* acc being the sum of the terms above i in units of BASE^i
CmpMulAdd(a, X, b, Y, Z, i, acc) ==
  IF i < 1 THEN (IF acc > 0 THEN 1 ELSE IF acc < 0 THEN -1 ELSE 0)
  ELSE LET d == (a % BASE) * Limb(X, i) + (a \div BASE) * Limb(X, i - 1)
                - (b % BASE) * Limb(Y, i) - (b \div BASE) * Limb(Y, i - 1)
                - Limb(Z, i)
           w == acc * BASE + d
       IN  IF w > SignLimit(a, b) THEN 1
           ELSE IF w < -SignLimit(a, b) THEN -1
           ELSE CmpMulAdd(a, X, b, Y, Z, i - 1, w)

\* a*X <= b*Y + Z
LeqMulAdd(a, X, b, Y, Z) ==
  CmpMulAdd(a, X, b, Y, Z, Max2(Len(X), Max2(Len(Y), Len(Z))) + 1, 0) <= 0

RECURSIVE FloorQuot(_, _, _, _, _, _)
\* the largest e in lo..hi with e*X <= b*Y + Z (lo satisfies it)
FloorQuot(lo, hi, X, b, Y, Z) ==
  IF lo >= hi THEN lo
  ELSE LET mid == (lo + hi + 1) \div 2
       IN  IF LeqMulAdd(mid, X, b, Y, Z)
           THEN FloorQuot(mid, hi, X, b, Y, Z)
           ELSE FloorQuot(lo, mid - 1, X, b, Y, Z)

(***************************************************************************)
(* Reference data (server/src/data/mockData.json).  The loan products are  *)
(* listed in the order, and with the names and rates, the client shows;    *)
(* amounts and tenures follow the README's loan-type example.              *)
(***************************************************************************)
loanTypes ==
  << [id |-> "personal", name |-> "Personal Loan",
      minAmount |-> 10000, maxAmount |-> 500000, interestRate |-> 125,
      tenureMonths |-> <<12, 24, 36>>],
     [id |-> "home", name |-> "Home Loan",
      minAmount |-> 500000, maxAmount |-> 5000000, interestRate |-> 85,
      tenureMonths |-> <<24, 36>>],
     [id |-> "car", name |-> "Car Loan",
      minAmount |-> 100000, maxAmount |-> 2000000, interestRate |-> 95,
      tenureMonths |-> <<12, 24, 36>>],
     [id |-> "education", name |-> "Education Loan",
      minAmount |-> 50000, maxAmount |-> 2000000, interestRate |-> 100,
      tenureMonths |-> <<12, 24, 36>>] >>

mockCustomers ==
  << [pan |-> "ABCDE1234F", name |-> "Rahul Sharma", email |-> "rahul.sharma@email.com",
      phone |-> "9876543210", salary |-> 75000, employer |-> "Tech Solutions Pvt Ltd",
      employmentType |-> "salaried", creditScore |-> 750],
     [pan |-> "LMNOP9012H", name |-> "Amit Kumar", email |-> "amit.kumar@email.com",
      phone |-> "9123456780", salary |-> 60000, employer |-> "Kumar Traders",
      employmentType |-> "self-employed", creditScore |-> 620] >>

\* loanTypes.find(l => l.id === id): the index of the first match, 0 for undefined
FindLoan(id) ==
  LET hits == {i \in 1..Len(loanTypes) : loanTypes[i].id = id}
  IN  IF hits = {} THEN 0 ELSE CHOOSE i \in hits : \A j \in hits : i <= j

(***************************************************************************)
(* User texts.  A text is known to the agents only through what their      *)
(* patterns find in it, so each text of the vocabulary is listed with the  *)
(* result of every match the code performs on it:                          *)
(*   has    the needles that text.toLowerCase().includes(...) finds         *)
(*   amt    the number in the first AMOUNT_PATTERN match, -1 without match  *)
(*   yrs    the digits before "years"/"yrs", -1 without match               *)
(*   mos    the digits before "months"/"mos", -1 without match              *)
(*   num    the first stand-alone number, -1 without match                  *)
(*   name   /^[A-Za-z\s]+$/ holds of the text                               *)
(*   email, phone, pan   the first match of the pattern, "" without match   *)
(* Numbers above the 32-bit range are kept as OVER, which lies above every *)
(* bound the code compares an extracted number with.                       *)
(***************************************************************************)
OVER == 2000000000

Tok(has, amt, yrs, mos, num, name, email, phone, pan) ==
  [has |-> has, amt |-> amt, yrs |-> yrs, mos |-> mos, num |-> num,
   name |-> name, email |-> email, phone |-> phone, pan |-> pan]

\* the text the orchestrator sends to itself on a reset
RESET_TEXT == "Hi, I want to apply for a loan"

Lex ==
  ( "Hi"              :> Tok({}, -1, -1, -1, -1, TRUE, "", "", "")
 @@ "Personal Loan"   :> Tok({"personal", "loan"}, -1, -1, -1, -1, TRUE, "", "", "")
 @@ "home"            :> Tok({"home"}, -1, -1, -1, -1, TRUE, "", "", "")
 @@ "5 lakhs"         :> Tok({"lakh"}, 5, -1, -1, 5, FALSE, "", "", "")
 @@ "9000"            :> Tok({}, 9000, -1, -1, 9000, FALSE, "", "", "")
 @@ "3 years"         :> Tok({}, 3, 3, -1, 3, FALSE, "", "", "")
 @@ "Rahul Sharma"    :> Tok({}, -1, -1, -1, -1, TRUE, "", "", "")
 @@ "rahul.sharma@email.com"
                      :> Tok({}, -1, -1, -1, -1, FALSE, "rahul.sharma@email.com", "", "")
 @@ "9876543210"      :> Tok({}, OVER, -1, -1, OVER, FALSE, "", "9876543210", "")
 @@ "salaried"        :> Tok({"salaried"}, -1, -1, -1, -1, TRUE, "", "", "")
 @@ "self-employed"   :> Tok({"pl", "employed", "self"}, -1, -1, -1, -1, FALSE, "", "", "")
 @@ "I run my own business"
                      :> Tok({"business", "own"}, -1, -1, -1, -1, TRUE, "", "", "")
 @@ "Tech Solutions Pvt Ltd"
                      :> Tok({}, -1, -1, -1, -1, TRUE, "", "", "")
 @@ "75000"           :> Tok({}, 75000, -1, -1, 75000, FALSE, "", "", "")
 @@ "20000"           :> Tok({}, 20000, -1, -1, 20000, FALSE, "", "", "")
 @@ "ABCDE1234F"      :> Tok({}, 1234, -1, -1, -1, FALSE, "", "", "ABCDE1234F")
 @@ "LMNOP9012H"      :> Tok({}, 9012, -1, -1, -1, FALSE, "", "", "LMNOP9012H")
 @@ "ZZZZZ9999Z"      :> Tok({}, 9999, -1, -1, -1, FALSE, "", "", "ZZZZZ9999Z")
 @@ "??"              :> Tok({}, -1, -1, -1, -1, FALSE, "", "", "")
 @@ "download letter" :> Tok({"own", "download", "letter"}, -1, -1, -1, -1, TRUE, "", "", "")
 @@ "new application" :> Tok({"pl", "new"}, -1, -1, -1, -1, TRUE, "", "", "")
 @@ "thanks"          :> Tok({}, -1, -1, -1, -1, TRUE, "", "", "")
 @@ RESET_TEXT        :> Tok({"loan", "pl"}, -1, -1, -1, -1, FALSE, "", "", "")
 \* a text of white space only, after message.trim()
 @@ ""                :> Tok({}, -1, -1, -1, -1, FALSE, "", "", "")
 @@ "start over"      :> Tok({"start over"}, -1, -1, -1, -1, TRUE, "", "", "")
 @@ "download new letter"
                      :> Tok({"own", "download", "letter", "new"}, -1, -1, -1, -1, TRUE,
                             "", "", "")
 @@ "10000"           :> Tok({}, 10000, -1, -1, 10000, FALSE, "", "", "")
 @@ "6 lakhs"         :> Tok({"lakh"}, 6, -1, -1, 6, FALSE, "", "", "")
 @@ "20 months"       :> Tok({}, 20, -1, 20, 20, FALSE, "", "", "")
 @@ "18 months"       :> Tok({}, 18, -1, 18, 18, FALSE, "", "", "")
 @@ "30 months"       :> Tok({}, 30, -1, 30, 30, FALSE, "", "", "")
 @@ "2"               :> Tok({}, 2, -1, -1, 2, FALSE, "", "", "") )

Texts == DOMAIN Lex

\* text.toLowerCase().includes(needle)
Includes(text, needle) == needle \in Lex[text].has

\* loan.name.toLowerCase().split(' ')
nameWords ==
  ( "Personal Loan"  :> {"personal", "loan"}
 @@ "Home Loan"      :> {"home", "loan"}
 @@ "Car Loan"       :> {"car", "loan"}
 @@ "Education Loan" :> {"education", "loan"} )

NoLoan == [id |-> "", name |-> ""]

extractLoanType(message) ==
  LET hits == {i \in 1..Len(loanTypes) :
                 \E keyword \in nameWords[loanTypes[i].name] : Includes(message, keyword)}
  IN  IF hits # {}
      THEN LET i == CHOOSE h \in hits : \A j \in hits : h <= j
           IN  [id |-> loanTypes[i].id, name |-> loanTypes[i].name]
      ELSE IF Includes(message, "pl") \/ Includes(message, "personal")
      THEN [id |-> "personal", name |-> "Personal Loan"]
      ELSE IF Includes(message, "hl") \/ Includes(message, "home") \/ Includes(message, "house")
      THEN [id |-> "home", name |-> "Home Loan"]
      ELSE IF Includes(message, "car") \/ Includes(message, "vehicle") \/ Includes(message, "auto")
      THEN [id |-> "car", name |-> "Car Loan"]
      ELSE IF Includes(message, "education") \/ Includes(message, "study")
              \/ Includes(message, "student")
      THEN [id |-> "education", name |-> "Education Loan"]
      ELSE NoLoan

LAKH == 100000

\* the amount, 0 for null (the callers test the result for truthiness only)
extractAmount(message) ==
  LET amt == Lex[message].amt
  IN  IF amt = -1 THEN 0
      ELSE LET amount == IF Includes(message, "lakh") \/ Includes(message, "lac")
                         THEN (IF amt > OVER \div LAKH THEN OVER ELSE amt * LAKH)
                         ELSE amt
           IN  IF amount > 0 THEN amount ELSE 0

\* the tenure in months, 0 for null
extractTenure(message) ==
  LET t == Lex[message]
  IN  IF t.yrs # -1 THEN t.yrs * 12
      ELSE IF t.mos # -1 THEN t.mos
      ELSE IF t.num # -1 THEN (IF t.num <= 30 THEN t.num * 12 ELSE t.num)
      ELSE 0

MIN_SALARY_INPUT == 5000
MAX_SALARY_INPUT == 10000000

extractSalary(message) ==
  LET amount == extractAmount(message)
  IN  IF amount # 0 /\ amount >= MIN_SALARY_INPUT /\ amount <= MAX_SALARY_INPUT
      THEN amount ELSE 0

(***************************************************************************)
(* Applications are JavaScript objects: a function whose domain is the set *)
(* of fields that are present.                                             *)
(***************************************************************************)
NumFields == {"requestedAmount", "tenure", "monthlySalary", "creditScore",
              "approvedAmount", "interestRate", "emi", "createdAt", "updatedAt"}
BoolFields == {"kycVerified"}

\* !!application[field]
Truthy(application, field) ==
  /\ field \in DOMAIN application
  /\ IF field \in NumFields THEN application[field] # 0
     ELSE IF field \in BoolFields THEN application[field]
     ELSE IF field = "decisionReason" THEN TRUE
     ELSE application[field] # ""

\* application[field] || dflt, for a numeric field
NumOr(application, field, dflt) ==
  IF Truthy(application, field) THEN application[field] ELSE dflt

\* { ...a, ...b }
Spread(a, b) ==
  [k \in DOMAIN a \cup DOMAIN b |-> IF k \in DOMAIN b THEN b[k] ELSE a[k]]

Obj1(k, v) == [x \in {k} |-> v]
EmptyObj == [x \in {} |-> 0]

(***************************************************************************)
(* pdfService.ts and underwritingAgent.ts                                  *)
(***************************************************************************)
\* the salary floor one rupee lower
MIN_SALARY_BELOW == 25000 - 1
MIN_SALARY == 25000
MIN_CREDIT_SCORE == 650
CREDIT_SCORE_EXCELLENT == 750
CREDIT_SCORE_GOOD == 700
\* MAX_DTI_RATIO = 0.5 as a fraction
MAX_DTI_NUM == 1
MAX_DTI_DEN == 2
\* annualRate / 12 / 100 with the rate in tenths of a percent
RATE_DEN == 12000
DEFAULT_BASE_RATE == 120
DEFAULT_TENURE == 12
ROUND_TO == 10000

\* the rates getInterestRate can return and the tenures an application can carry
RateDomain ==
  {b + d : b \in {loanTypes[i].interestRate : i \in 1..Len(loanTypes)} \cup {DEFAULT_BASE_RATE},
           d \in {0, 5, 10, 20}}
TenureDomain ==
  UNION {{loanTypes[i].tenureMonths[j] : j \in 1..Len(loanTypes[i].tenureMonths)} :
         i \in 1..Len(loanTypes)} \cup {DEFAULT_TENURE}

\* for (rate, n): RA = R*(1+r)^n and DB = D*((1+r)^n - 1), both scaled by D^n,
\* with the multiples of them the two quotients below compare against
AmortEntry(rate, n) ==
  LET A  == BigPow(RATE_DEN + rate, n)
      Dn == BigPow(RATE_DEN, n)
      RA == MulSmall(A, rate)
      DB == MulSmall(BigSub(A, Dn), RATE_DEN)
  IN  [RA |-> RA, DB |-> DB, DB2 |-> MulSmall(DB, 2),
       RAcap |-> MulSmall(MulSmall(RA, MAX_DTI_DEN), ROUND_TO)]

\* the table of entries over every rate and tenure the engine can be given
AmortTable ==
  [key \in RateDomain \X TenureDomain |-> AmortEntry(key[1], key[2])] @@ <<>>

\* Math.round(principal * r * (1+r)^n / ((1+r)^n - 1)), r = annualRate / 12 / 100
\* the quotient is looked for between principal / n and principal / n + principal * r
calculateEMI(principal, annualRate, tenureMonths) ==
  LET lo == principal \div tenureMonths
  IN  CHOOSE emi \in {FloorQuot(lo, lo + (principal \div RATE_DEN + 1) * annualRate + 2,
                                t.DB2, 2 * principal, t.RA, t.DB) :
                      t \in {AmortTable[<<annualRate, tenureMonths>>]}} : TRUE

\* calculateMaxEligibleAmount with Math.ceil
calculateMaxEligibleAmountCeil(monthlySalary, tenure, interestRate) ==
  CHOOSE cap \in {ROUND_TO * (FloorQuot(0, (monthlySalary * tenure) \div ROUND_TO + 1,
                                        t.RAcap, monthlySalary * MAX_DTI_NUM, t.DB, <<>>) + 1) :
                  t \in {AmortTable[<<interestRate, tenure>>]}} : TRUE

\* calculateMaxEligibleAmount that rounds to the nearest 10,000
calculateMaxEligibleAmountNearest(monthlySalary, tenure, interestRate) ==
  CHOOSE cap \in {ROUND_TO * ((FloorQuot(0, 2 * ((monthlySalary * tenure) \div ROUND_TO + 1),
                                         t.RAcap, 2 * monthlySalary * MAX_DTI_NUM, t.DB, <<>>)
                               + 1) \div 2) :
                  t \in {AmortTable[<<interestRate, tenure>>]}} : TRUE

\* Math.floor(maxEMI * ((1+r)^n - 1) / (r * (1+r)^n) / 10000) * 10000
calculateMaxEligibleAmount(monthlySalary, tenure, interestRate) ==
  CHOOSE cap \in {ROUND_TO * FloorQuot(0, (monthlySalary * tenure) \div ROUND_TO + 1,
                                       t.RAcap, monthlySalary * MAX_DTI_NUM, t.DB, <<>>) :
                  t \in {AmortTable[<<interestRate, tenure>>]}} : TRUE

\* getInterestRate whose good tier starts above CREDIT_SCORE_GOOD
getInterestRateAbove(creditScore, baseRate) ==
  IF creditScore >= CREDIT_SCORE_EXCELLENT THEN baseRate
  ELSE IF creditScore > CREDIT_SCORE_GOOD THEN baseRate + 5
  ELSE IF creditScore >= MIN_CREDIT_SCORE THEN baseRate + 10
  ELSE baseRate + 20

getInterestRate(creditScore, baseRate) ==
  IF creditScore >= CREDIT_SCORE_EXCELLENT THEN baseRate
  ELSE IF creditScore >= CREDIT_SCORE_GOOD THEN baseRate + 5
  ELSE IF creditScore >= MIN_CREDIT_SCORE THEN baseRate + 10
  ELSE baseRate + 20

\* calculateRiskScore with the first tier of the amount at ten annual incomes
calculateRiskScoreTenfold(application) ==
  LET credit ==
        IF Truthy(application, "creditScore")
        THEN IF application.creditScore >= CREDIT_SCORE_EXCELLENT THEN 40
             ELSE IF application.creditScore >= CREDIT_SCORE_GOOD THEN 30
             ELSE IF application.creditScore >= MIN_CREDIT_SCORE THEN 20
             ELSE 5
        ELSE 0
      salary ==
        IF Truthy(application, "monthlySalary")
        THEN IF application.monthlySalary >= 100000 THEN 30
             ELSE IF application.monthlySalary >= 50000 THEN 25
             ELSE IF application.monthlySalary >= MIN_SALARY THEN 15
             ELSE 5
        ELSE 0
      employment ==
        IF "employmentType" \in DOMAIN application
           /\ application.employmentType = "salaried" THEN 20 ELSE 12
      ratio ==
        IF Truthy(application, "requestedAmount") /\ Truthy(application, "monthlySalary")
        THEN LET annualIncome == application.monthlySalary * 12
             IN  IF application.requestedAmount <= 10 * annualIncome THEN 10
                 ELSE IF application.requestedAmount <= 4 * annualIncome THEN 7
                 ELSE IF application.requestedAmount <= 6 * annualIncome THEN 4
                 ELSE 0
        ELSE 0
      score == credit + salary + employment + ratio
  IN  IF score <= 100 THEN score ELSE 100

calculateRiskScore(application) ==
  LET credit ==
        IF Truthy(application, "creditScore")
        THEN IF application.creditScore >= CREDIT_SCORE_EXCELLENT THEN 40
             ELSE IF application.creditScore >= CREDIT_SCORE_GOOD THEN 30
             ELSE IF application.creditScore >= MIN_CREDIT_SCORE THEN 20
             ELSE 5
        ELSE 0
      salary ==
        IF Truthy(application, "monthlySalary")
        THEN IF application.monthlySalary >= 100000 THEN 30
             ELSE IF application.monthlySalary >= 50000 THEN 25
             ELSE IF application.monthlySalary >= MIN_SALARY THEN 15
             ELSE 5
        ELSE 0
      employment ==
        IF "employmentType" \in DOMAIN application
           /\ application.employmentType = "salaried" THEN 20 ELSE 12
      ratio ==
        IF Truthy(application, "requestedAmount") /\ Truthy(application, "monthlySalary")
        THEN LET annualIncome == application.monthlySalary * 12
             IN  IF application.requestedAmount <= 2 * annualIncome THEN 10
                 ELSE IF application.requestedAmount <= 4 * annualIncome THEN 7
                 ELSE IF application.requestedAmount <= 6 * annualIncome THEN 4
                 ELSE 0
        ELSE 0
      score == credit + salary + employment + ratio
  IN  IF score <= 100 THEN score ELSE 100

\* a reason is a message template with the values interpolated into it
Reason(text, name, args) == [text |-> text, name |-> name, args |-> args]

\* makeUnderwritingDecision that approves the eligible amount for a lower request
makeUnderwritingDecisionRaises(application) ==
  LET salary          == NumOr(application, "monthlySalary", 0)
      creditScore     == NumOr(application, "creditScore", 0)
      requestedAmount == NumOr(application, "requestedAmount", 0)
      tenure          == NumOr(application, "tenure", DEFAULT_TENURE)
      loanType        == IF "loanType" \in DOMAIN application
                         THEN FindLoan(application.loanType) ELSE 0
      baseRate        == IF loanType # 0 /\ loanTypes[loanType].interestRate # 0
                         THEN loanTypes[loanType].interestRate ELSE DEFAULT_BASE_RATE
      loanTypeName    == IF "loanTypeName" \in DOMAIN application
                         THEN application.loanTypeName ELSE "undefined"
      interestRate    == getInterestRate(creditScore, baseRate)
      maxEligible     == calculateMaxEligibleAmount(salary, tenure, interestRate)
      emi             == calculateEMI(requestedAmount, interestRate, tenure)
      \* Math.floor(salary * 0.5 * tenure * 0.7), kept below 2^31
      adjustedAmount  == LET st == salary * MAX_DTI_NUM * tenure
                             d  == MAX_DTI_DEN * 10
                         IN  7 * (st \div d) + (7 * (st % d)) \div d
      adjustedEMI     == calculateEMI(adjustedAmount, interestRate, tenure)
  IN  IF salary < MIN_SALARY
      THEN [decision |-> "REJECTED",
            reason |-> Reason("salary below minimum", "", <<salary, MIN_SALARY>>),
            riskScore |-> calculateRiskScore(application)]
      ELSE IF creditScore < MIN_CREDIT_SCORE
      THEN [decision |-> "REJECTED",
            reason |-> Reason("credit score below minimum", "",
                              <<creditScore, MIN_CREDIT_SCORE>>),
            riskScore |-> calculateRiskScore(application)]
      ELSE IF requestedAmount < maxEligible
      THEN [decision |-> "APPROVED",
            reason |-> Reason("reduced to eligible amount", "",
                              <<salary, maxEligible, requestedAmount>>),
            approvedAmount |-> maxEligible,
            interestRate |-> interestRate,
            riskScore |-> calculateRiskScore(application)]
      ELSE IF emi * MAX_DTI_DEN > salary * MAX_DTI_NUM
      THEN [decision |-> "APPROVED",
            reason |-> Reason("adjusted for comfortable repayment", "",
                              <<adjustedAmount, adjustedEMI>>),
            approvedAmount |-> adjustedAmount,
            interestRate |-> interestRate,
            riskScore |-> calculateRiskScore(application)]
      ELSE [decision |-> "APPROVED",
            reason |-> Reason("meets all criteria", loanTypeName,
                              <<creditScore, interestRate>>),
            approvedAmount |-> requestedAmount,
            interestRate |-> interestRate,
            riskScore |-> calculateRiskScore(application)]

\* makeUnderwritingDecision that also rejects the lowest credit score allowed
makeUnderwritingDecisionStrict(application) ==
  LET salary          == NumOr(application, "monthlySalary", 0)
      creditScore     == NumOr(application, "creditScore", 0)
      requestedAmount == NumOr(application, "requestedAmount", 0)
      tenure          == NumOr(application, "tenure", DEFAULT_TENURE)
      loanType        == IF "loanType" \in DOMAIN application
                         THEN FindLoan(application.loanType) ELSE 0
      baseRate        == IF loanType # 0 /\ loanTypes[loanType].interestRate # 0
                         THEN loanTypes[loanType].interestRate ELSE DEFAULT_BASE_RATE
      loanTypeName    == IF "loanTypeName" \in DOMAIN application
                         THEN application.loanTypeName ELSE "undefined"
      interestRate    == getInterestRate(creditScore, baseRate)
      maxEligible     == calculateMaxEligibleAmount(salary, tenure, interestRate)
      emi             == calculateEMI(requestedAmount, interestRate, tenure)
      \* Math.floor(salary * 0.5 * tenure * 0.7), kept below 2^31
      adjustedAmount  == LET st == salary * MAX_DTI_NUM * tenure
                             d  == MAX_DTI_DEN * 10
                         IN  7 * (st \div d) + (7 * (st % d)) \div d
      adjustedEMI     == calculateEMI(adjustedAmount, interestRate, tenure)
  IN  IF salary < MIN_SALARY
      THEN [decision |-> "REJECTED",
            reason |-> Reason("salary below minimum", "", <<salary, MIN_SALARY>>),
            riskScore |-> calculateRiskScore(application)]
      ELSE IF creditScore <= MIN_CREDIT_SCORE
      THEN [decision |-> "REJECTED",
            reason |-> Reason("credit score below minimum", "",
                              <<creditScore, MIN_CREDIT_SCORE>>),
            riskScore |-> calculateRiskScore(application)]
      ELSE IF requestedAmount > maxEligible
      THEN [decision |-> "APPROVED",
            reason |-> Reason("reduced to eligible amount", "",
                              <<salary, maxEligible, requestedAmount>>),
            approvedAmount |-> maxEligible,
            interestRate |-> interestRate,
            riskScore |-> calculateRiskScore(application)]
      ELSE IF emi * MAX_DTI_DEN > salary * MAX_DTI_NUM
      THEN [decision |-> "APPROVED",
            reason |-> Reason("adjusted for comfortable repayment", "",
                              <<adjustedAmount, adjustedEMI>>),
            approvedAmount |-> adjustedAmount,
            interestRate |-> interestRate,
            riskScore |-> calculateRiskScore(application)]
      ELSE [decision |-> "APPROVED",
            reason |-> Reason("meets all criteria", loanTypeName,
                              <<creditScore, interestRate>>),
            approvedAmount |-> requestedAmount,
            interestRate |-> interestRate,
            riskScore |-> calculateRiskScore(application)]

\* makeUnderwritingDecision that approves the eligible amount when all checks pass
makeUnderwritingDecisionAtCap(application) ==
  LET salary          == NumOr(application, "monthlySalary", 0)
      creditScore     == NumOr(application, "creditScore", 0)
      requestedAmount == NumOr(application, "requestedAmount", 0)
      tenure          == NumOr(application, "tenure", DEFAULT_TENURE)
      loanType        == IF "loanType" \in DOMAIN application
                         THEN FindLoan(application.loanType) ELSE 0
      baseRate        == IF loanType # 0 /\ loanTypes[loanType].interestRate # 0
                         THEN loanTypes[loanType].interestRate ELSE DEFAULT_BASE_RATE
      loanTypeName    == IF "loanTypeName" \in DOMAIN application
                         THEN application.loanTypeName ELSE "undefined"
      interestRate    == getInterestRate(creditScore, baseRate)
      maxEligible     == calculateMaxEligibleAmount(salary, tenure, interestRate)
      emi             == calculateEMI(requestedAmount, interestRate, tenure)
      \* Math.floor(salary * 0.5 * tenure * 0.7), kept below 2^31
      adjustedAmount  == LET st == salary * MAX_DTI_NUM * tenure
                             d  == MAX_DTI_DEN * 10
                         IN  7 * (st \div d) + (7 * (st % d)) \div d
      adjustedEMI     == calculateEMI(adjustedAmount, interestRate, tenure)
  IN  IF salary < MIN_SALARY
      THEN [decision |-> "REJECTED",
            reason |-> Reason("salary below minimum", "", <<salary, MIN_SALARY>>),
            riskScore |-> calculateRiskScore(application)]
      ELSE IF creditScore < MIN_CREDIT_SCORE
      THEN [decision |-> "REJECTED",
            reason |-> Reason("credit score below minimum", "",
                              <<creditScore, MIN_CREDIT_SCORE>>),
            riskScore |-> calculateRiskScore(application)]
      ELSE IF requestedAmount > maxEligible
      THEN [decision |-> "APPROVED",
            reason |-> Reason("reduced to eligible amount", "",
                              <<salary, maxEligible, requestedAmount>>),
            approvedAmount |-> maxEligible,
            interestRate |-> interestRate,
            riskScore |-> calculateRiskScore(application)]
      ELSE IF emi * MAX_DTI_DEN > salary * MAX_DTI_NUM
      THEN [decision |-> "APPROVED",
            reason |-> Reason("adjusted for comfortable repayment", "",
                              <<adjustedAmount, adjustedEMI>>),
            approvedAmount |-> adjustedAmount,
            interestRate |-> interestRate,
            riskScore |-> calculateRiskScore(application)]
      ELSE [decision |-> "APPROVED",
            reason |-> Reason("meets all criteria", loanTypeName,
                              <<creditScore, interestRate>>),
            approvedAmount |-> maxEligible,
            interestRate |-> interestRate,
            riskScore |-> calculateRiskScore(application)]

makeUnderwritingDecision(application) ==
  LET salary          == NumOr(application, "monthlySalary", 0)
      creditScore     == NumOr(application, "creditScore", 0)
      requestedAmount == NumOr(application, "requestedAmount", 0)
      tenure          == NumOr(application, "tenure", DEFAULT_TENURE)
      loanType        == IF "loanType" \in DOMAIN application
                         THEN FindLoan(application.loanType) ELSE 0
      baseRate        == IF loanType # 0 /\ loanTypes[loanType].interestRate # 0
                         THEN loanTypes[loanType].interestRate ELSE DEFAULT_BASE_RATE
      loanTypeName    == IF "loanTypeName" \in DOMAIN application
                         THEN application.loanTypeName ELSE "undefined"
      interestRate    == getInterestRate(creditScore, baseRate)
      maxEligible     == calculateMaxEligibleAmount(salary, tenure, interestRate)
      emi             == calculateEMI(requestedAmount, interestRate, tenure)
      \* Math.floor(salary * 0.5 * tenure * 0.7), kept below 2^31
      adjustedAmount  == LET st == salary * MAX_DTI_NUM * tenure
                             d  == MAX_DTI_DEN * 10
                         IN  7 * (st \div d) + (7 * (st % d)) \div d
      adjustedEMI     == calculateEMI(adjustedAmount, interestRate, tenure)
  IN  IF salary < MIN_SALARY
      THEN [decision |-> "REJECTED",
            reason |-> Reason("salary below minimum", "", <<salary, MIN_SALARY>>),
            riskScore |-> calculateRiskScore(application)]
      ELSE IF creditScore < MIN_CREDIT_SCORE
      THEN [decision |-> "REJECTED",
            reason |-> Reason("credit score below minimum", "",
                              <<creditScore, MIN_CREDIT_SCORE>>),
            riskScore |-> calculateRiskScore(application)]
      ELSE IF requestedAmount > maxEligible
      THEN [decision |-> "APPROVED",
            reason |-> Reason("reduced to eligible amount", "",
                              <<salary, maxEligible, requestedAmount>>),
            approvedAmount |-> maxEligible,
            interestRate |-> interestRate,
            riskScore |-> calculateRiskScore(application)]
      ELSE IF emi * MAX_DTI_DEN > salary * MAX_DTI_NUM
      THEN [decision |-> "APPROVED",
            reason |-> Reason("adjusted for comfortable repayment", "",
                              <<adjustedAmount, adjustedEMI>>),
            approvedAmount |-> adjustedAmount,
            interestRate |-> interestRate,
            riskScore |-> calculateRiskScore(application)]
      ELSE [decision |-> "APPROVED",
            reason |-> Reason("meets all criteria", loanTypeName,
                              <<creditScore, interestRate>>),
            approvedAmount |-> requestedAmount,
            interestRate |-> interestRate,
            riskScore |-> calculateRiskScore(application)]

(***************************************************************************)
(* salesAgent.ts.  A message text is a template with the values            *)
(* interpolated into it: the template, the strings and the numbers.        *)
(***************************************************************************)
Say(text, names, nums) == [text |-> text, names |-> names, nums |-> nums]

\* the empty string as a reply
Silent == Say("", <<>>, <<>>)

Stages == <<"GREETING", "LOAN_TYPE", "AMOUNT", "TENURE", "PERSONAL_INFO",
            "EMPLOYMENT_INFO", "VERIFICATION", "UNDERWRITING", "DECISION", "COMPLETED">>

SalesStages == {"GREETING", "LOAN_TYPE", "AMOUNT", "TENURE", "PERSONAL_INFO",
                "EMPLOYMENT_INFO"}

\* an AgentResponse whose stage falls back to GREETING when nothing was extracted
AgentResponseFromGreeting(msg, nextStage, updates) ==
  [message |-> msg,
   nextStage |-> IF DOMAIN updates = {} /\ nextStage # "" THEN "GREETING" ELSE nextStage,
   applicationUpdates |-> updates]

\* an AgentResponse; nextStage "" is undefined
AgentResponse(msg, nextStage, updates) ==
  [message |-> msg, nextStage |-> nextStage, applicationUpdates |-> updates]

Abs(n) == IF n < 0 THEN -n ELSE n

RECURSIVE ClosestFromLast(_, _, _, _)
\* the reduction with <= in place of <: of two equidistant tenures the later
\* one wins
ClosestFromLast(validTenures, i, prev, tenure) ==
  IF i > Len(validTenures) THEN prev
  ELSE ClosestFromLast(validTenures, i + 1,
                       IF Abs(validTenures[i] - tenure) <= Abs(prev - tenure)
                       THEN validTenures[i] ELSE prev,
                       tenure)

RECURSIVE ClosestFrom(_, _, _, _)
\* validTenures.reduce((prev, curr) => |curr - tenure| < |prev - tenure| ? curr : prev)
ClosestFrom(validTenures, i, prev, tenure) ==
  IF i > Len(validTenures) THEN prev
  ELSE ClosestFrom(validTenures, i + 1,
                   IF Abs(validTenures[i] - tenure) < Abs(prev - tenure)
                   THEN validTenures[i] ELSE prev,
                   tenure)

closestTenure(validTenures, tenure) == ClosestFrom(validTenures, 2, validTenures[1], tenure)

\* OfferLoan that sends the client on to the tenure at once
OfferLoanSkip(template, found, stay) ==
  IF found # NoLoan
  THEN LET loanInfo == loanTypes[FindLoan(found.id)]
       IN  AgentResponse(
             Say(template, <<found.name>>,
                 <<loanInfo.minAmount, loanInfo.maxAmount, loanInfo.interestRate>>),
             "TENURE",
             [loanType |-> found.id, loanTypeName |-> found.name])
  ELSE stay

\* OfferLoan that stores the id of the loan type without its name
OfferLoanUnnamed(template, found, stay) ==
  IF found # NoLoan
  THEN LET loanInfo == loanTypes[FindLoan(found.id)]
       IN  AgentResponse(
             Say(template, <<found.name>>,
                 <<loanInfo.minAmount, loanInfo.maxAmount, loanInfo.interestRate>>),
             "AMOUNT",
             [loanType |-> found.id])
  ELSE stay

\* OfferLoan that stores a personal loan when no loan type is recognized
OfferLoanDefault(template, found, stay) ==
  IF found # NoLoan
  THEN LET loanInfo == loanTypes[FindLoan(found.id)]
       IN  AgentResponse(
             Say(template, <<found.name>>,
                 <<loanInfo.minAmount, loanInfo.maxAmount, loanInfo.interestRate>>),
             "AMOUNT",
             [loanType |-> found.id, loanTypeName |-> found.name])
  ELSE AgentResponse(stay.message, stay.nextStage,
                     [loanType |-> "personal", loanTypeName |-> "Personal Loan"])

OfferLoan(template, found, stay) ==
  IF found # NoLoan
  THEN LET loanInfo == loanTypes[FindLoan(found.id)]
       IN  AgentResponse(
             Say(template, <<found.name>>,
                 <<loanInfo.minAmount, loanInfo.maxAmount, loanInfo.interestRate>>),
             "AMOUNT",
             [loanType |-> found.id, loanTypeName |-> found.name])
  ELSE stay

LoanNameOf(application) ==
  IF "loanTypeName" \in DOMAIN application THEN application.loanTypeName ELSE "undefined"

\* case 'PERSONAL_INFO' that takes every text that looks like a name as the name
PersonalInfoRenames(userMessage, application, stage) ==
  IF Lex[userMessage].name
  THEN AgentResponse(Say("nice to meet you, what is your email address",
                         <<userMessage>>, <<>>),
                     stage, [fullName |-> userMessage])
  ELSE AgentResponse(Say("please enter your full name", <<>>, <<>>), stage, EmptyObj)

\* case 'PERSONAL_INFO' that leaves the stage once the e-mail address is stored
PersonalInfoEarly(userMessage, application, stage) ==
  IF ~Truthy(application, "fullName")
  THEN IF Lex[userMessage].name
       THEN AgentResponse(Say("nice to meet you, what is your email address",
                              <<userMessage>>, <<>>),
                          stage, [fullName |-> userMessage])
       ELSE AgentResponse(Say("please enter your full name", <<>>, <<>>),
                          stage, EmptyObj)
  ELSE IF ~Truthy(application, "email")
  THEN IF Lex[userMessage].email # ""
       THEN AgentResponse(Say("got it, what is your mobile number", <<>>, <<>>),
                          "EMPLOYMENT_INFO", [email |-> Lex[userMessage].email])
       ELSE AgentResponse(Say("please enter a valid email address", <<>>, <<>>),
                          stage, EmptyObj)
  ELSE IF ~Truthy(application, "phone")
  THEN IF Lex[userMessage].phone # ""
       THEN AgentResponse(Say("great, are you salaried or self-employed", <<>>, <<>>),
                          "EMPLOYMENT_INFO", [phone |-> Lex[userMessage].phone])
       ELSE AgentResponse(Say("please enter a valid mobile number", <<>>, <<>>),
                          stage, EmptyObj)
  ELSE AgentResponse(Silent, stage, EmptyObj)

\* case 'PERSONAL_INFO' of handleSalesAgent
PersonalInfo(userMessage, application, stage) ==
  IF ~Truthy(application, "fullName")
  THEN IF Lex[userMessage].name
       THEN AgentResponse(Say("nice to meet you, what is your email address",
                              <<userMessage>>, <<>>),
                          stage, [fullName |-> userMessage])
       ELSE AgentResponse(Say("please enter your full name", <<>>, <<>>),
                          stage, EmptyObj)
  ELSE IF ~Truthy(application, "email")
  THEN IF Lex[userMessage].email # ""
       THEN AgentResponse(Say("got it, what is your mobile number", <<>>, <<>>),
                          stage, [email |-> Lex[userMessage].email])
       ELSE AgentResponse(Say("please enter a valid email address", <<>>, <<>>),
                          stage, EmptyObj)
  ELSE IF ~Truthy(application, "phone")
  THEN IF Lex[userMessage].phone # ""
       THEN AgentResponse(Say("great, are you salaried or self-employed", <<>>, <<>>),
                          "EMPLOYMENT_INFO", [phone |-> Lex[userMessage].phone])
       ELSE AgentResponse(Say("please enter a valid mobile number", <<>>, <<>>),
                          stage, EmptyObj)
  ELSE AgentResponse(Silent, stage, EmptyObj)

\* case 'EMPLOYMENT_INFO' that leaves the stage once the employer is stored
EmploymentInfoEarly(userMessage, application, stage) ==
  IF ~Truthy(application, "employmentType")
  THEN IF Includes(userMessage, "salaried") \/ Includes(userMessage, "salary")
          \/ Includes(userMessage, "employed")
       THEN AgentResponse(Say("what is the name of your employer", <<>>, <<>>),
                          stage, [employmentType |-> "salaried"])
       ELSE IF Includes(userMessage, "self") \/ Includes(userMessage, "business")
               \/ Includes(userMessage, "own")
       THEN AgentResponse(Say("what is the name of your business", <<>>, <<>>),
                          stage, [employmentType |-> "self-employed"])
       ELSE AgentResponse(Say("please specify salaried or self-employed", <<>>, <<>>),
                          stage, EmptyObj)
  ELSE IF ~Truthy(application, "employer")
  THEN AgentResponse(Say("what is your monthly salary", <<>>, <<>>),
                     "VERIFICATION", [employer |-> userMessage])
  ELSE IF ~Truthy(application, "monthlySalary")
  THEN LET salary == extractSalary(userMessage)
       IN  IF salary # 0
           THEN AgentResponse(Say("last step, your PAN number", <<>>, <<>>),
                              "VERIFICATION", [monthlySalary |-> salary])
           ELSE AgentResponse(Say("please enter your monthly salary", <<>>, <<>>),
                              stage, EmptyObj)
  ELSE AgentResponse(Silent, stage, EmptyObj)

\* case 'EMPLOYMENT_INFO' of handleSalesAgent
EmploymentInfo(userMessage, application, stage) ==
  IF ~Truthy(application, "employmentType")
  THEN IF Includes(userMessage, "salaried") \/ Includes(userMessage, "salary")
          \/ Includes(userMessage, "employed")
       THEN AgentResponse(Say("what is the name of your employer", <<>>, <<>>),
                          stage, [employmentType |-> "salaried"])
       ELSE IF Includes(userMessage, "self") \/ Includes(userMessage, "business")
               \/ Includes(userMessage, "own")
       THEN AgentResponse(Say("what is the name of your business", <<>>, <<>>),
                          stage, [employmentType |-> "self-employed"])
       ELSE AgentResponse(Say("please specify salaried or self-employed", <<>>, <<>>),
                          stage, EmptyObj)
  ELSE IF ~Truthy(application, "employer")
  THEN AgentResponse(Say("what is your monthly salary", <<>>, <<>>),
                     stage, [employer |-> userMessage])
  ELSE IF ~Truthy(application, "monthlySalary")
  THEN LET salary == extractSalary(userMessage)
       IN  IF salary # 0
           THEN AgentResponse(Say("last step, your PAN number", <<>>, <<>>),
                              "VERIFICATION", [monthlySalary |-> salary])
           ELSE AgentResponse(Say("please enter your monthly salary", <<>>, <<>>),
                              stage, EmptyObj)
  ELSE AgentResponse(Silent, stage, EmptyObj)

handleSalesAgent(userMessage, session) ==
  LET application == session.application
      stage       == session.stage
      currentLoan == IF "loanType" \in DOMAIN application
                     THEN FindLoan(application.loanType) ELSE 0
  IN
  CASE stage = "GREETING" ->
         OfferLoan("excellent choice, how much", extractLoanType(userMessage),
                   AgentResponse(Say("welcome, which type of loan", <<>>, <<>>),
                                 "LOAN_TYPE", EmptyObj))
    [] stage = "LOAN_TYPE" ->
         OfferLoan("great, how much", extractLoanType(userMessage),
                   AgentResponse(Say("please select a loan type", <<>>, <<>>),
                                 stage, EmptyObj))
    [] stage = "AMOUNT" ->
         LET amount == extractAmount(userMessage)
         IN  IF amount # 0 /\ currentLoan # 0
             THEN IF amount < loanTypes[currentLoan].minAmount
                  THEN AgentResponse(
                         Say("the minimum amount is", <<LoanNameOf(application)>>,
                             <<loanTypes[currentLoan].minAmount>>), stage, EmptyObj)
                  ELSE IF amount > loanTypes[currentLoan].maxAmount
                  THEN AgentResponse(
                         Say("the maximum amount is", <<LoanNameOf(application)>>,
                             <<loanTypes[currentLoan].maxAmount>>), stage, EmptyObj)
                  ELSE AgentResponse(
                         Say("got it, what tenure", <<>>, <<amount>>),
                         "TENURE", [requestedAmount |-> amount])
             ELSE AgentResponse(Say("please enter a valid loan amount", <<>>, <<>>),
                                stage, EmptyObj)
    [] stage = "TENURE" ->
         LET tenure == extractTenure(userMessage)
         IN  IF tenure # 0 /\ currentLoan # 0
             THEN LET closest == closestTenure(loanTypes[currentLoan].tenureMonths, tenure)
                  IN  AgentResponse(Say("tenure set, what is your full name", <<>>, <<closest>>),
                                    "PERSONAL_INFO", [tenure |-> closest])
             ELSE AgentResponse(Say("please specify a valid tenure", <<>>, <<>>),
                                stage, EmptyObj)
    [] stage = "PERSONAL_INFO" -> PersonalInfo(userMessage, application, stage)
    [] stage = "EMPLOYMENT_INFO" -> EmploymentInfo(userMessage, application, stage)
    [] OTHER -> AgentResponse(Say("fallback", <<stage>>, <<>>), stage, EmptyObj)

(***************************************************************************)
(* verificationAgent.ts                                                    *)
(***************************************************************************)
\* mockCustomers.find(c => c.pan.toUpperCase() === upperPAN), 0 for undefined
FindCustomer(pan) ==
  LET hits == {i \in 1..Len(mockCustomers) : mockCustomers[i].pan = pan}
  IN  IF hits = {} THEN 0 ELSE CHOOSE i \in hits : \A j \in hits : i <= j

\* Math.floor(Math.random() * (800 - 550)) + 550 lies in RANDOM_MIN..RANDOM_MAX
RANDOM_MIN == 550
RANDOM_MAX == 799

\* rnd is the number the random generator yields for a PAN that is not on file
verifyPAN(pan, rnd) ==
  LET customer == FindCustomer(pan)
  IN  IF customer # 0
      THEN [verified |-> TRUE, creditScore |-> mockCustomers[customer].creditScore,
            customerData |-> customer]
      ELSE [verified |-> TRUE, creditScore |-> rnd, customerData |-> 0]

requiredFields == <<"loanType", "requestedAmount", "tenure", "fullName", "email",
                    "phone", "monthlySalary", "employmentType">>

\* validateApplicationData that never finds the application complete
validateApplicationDataNever(application) ==
  LET Missing(field) == ~Truthy(application, field)
      missingFields  == SelectSeq(requiredFields, Missing)
  IN  [isComplete |-> FALSE, missingFields |-> missingFields]

\* validateApplicationData whose test of the count accepts any count
validateApplicationDataLax(application) ==
  LET Missing(field) == ~Truthy(application, field)
      missingFields  == SelectSeq(requiredFields, Missing)
  IN  [isComplete |-> Len(missingFields) >= 0, missingFields |-> missingFields]

validateApplicationData(application) ==
  LET Missing(field) == ~Truthy(application, field)
      missingFields  == SelectSeq(requiredFields, Missing)
  IN  [isComplete |-> Len(missingFields) = 0, missingFields |-> missingFields]

fieldLabels ==
  [loanType |-> "Loan Type", requestedAmount |-> "Loan Amount", tenure |-> "Loan Tenure",
   fullName |-> "Full Name", email |-> "Email Address", phone |-> "Phone Number",
   monthlySalary |-> "Monthly Salary", employmentType |-> "Employment Type"]

formatMissingFields(fields) == [i \in 1..Len(fields) |-> fieldLabels[fields[i]]]

\* CustomerFill that takes every field from the customer on file
CustomerFillAll(application, customer) ==
  LET c == mockCustomers[customer]
  IN  [fullName |-> c.name, email |-> c.email, phone |-> c.phone,
       monthlySalary |-> c.salary, employer |-> c.employer,
       employmentType |-> c.employmentType]

\* the fields of the customer on file that the application does not have yet
CustomerFill(application, customer) ==
  LET c == mockCustomers[customer]
      offered == [fullName |-> c.name, email |-> c.email, phone |-> c.phone,
                  monthlySalary |-> c.salary, employer |-> c.employer,
                  employmentType |-> c.employmentType]
      wanted == {f \in DOMAIN offered : ~Truthy(application, f)}
  IN  [f \in wanted |-> offered[f]]

handleVerificationAgent(userMessage, session, rnd) ==
  LET application == session.application
      pan         == Lex[userMessage].pan
  IN  IF pan # ""
      THEN LET verificationResult == verifyPAN(pan, rnd)
               updates ==
                 Spread([panNumber |-> pan,
                         creditScore |-> verificationResult.creditScore,
                         kycVerified |-> TRUE],
                        IF verificationResult.customerData # 0
                        THEN CustomerFill(application, verificationResult.customerData)
                        ELSE EmptyObj)
               validation == validateApplicationData(Spread(application, updates))
           IN  IF ~verificationResult.verified
               THEN AgentResponse(Say("PAN verification failed", <<>>, <<>>), "", EmptyObj)
               ELSE IF validation.isComplete
               THEN AgentResponse(Say("KYC verification successful", <<pan>>,
                                      <<updates.creditScore>>),
                                  "UNDERWRITING", updates)
               ELSE AgentResponse(Say("PAN verified, we still need",
                                      formatMissingFields(validation.missingFields), <<>>),
                                  "", updates)
      ELSE AgentResponse(Say("please enter a valid PAN number", <<>>, <<>>), "", EmptyObj)

(***************************************************************************)
(* underwritingAgent.ts and sanctionAgent.ts: the texts of the decision    *)
(***************************************************************************)
generateDecisionSummary(application, result) ==
  IF result.decision = "APPROVED"
  THEN Say("decision summary: approved", <<LoanNameOf(application), result.reason.text>>,
           <<result.approvedAmount, result.interestRate, result.riskScore>>)
  ELSE Say("decision summary: not approved", <<LoanNameOf(application), result.reason.text>>,
           <<NumOr(application, "requestedAmount", 0)>>)

generateRejectionResponse(application, reason) ==
  Say("we regret to inform you", <<LoanNameOf(application), reason.text>>,
      <<NumOr(application, "requestedAmount", 0)>>)

\* handleSanctionAgent up to the generation of the document: FALSE when it
\* returns without success before generating anything
SanctionValid(application) ==
  /\ "decision" \in DOMAIN application /\ application.decision = "APPROVED"
  /\ Truthy(application, "approvedAmount")
  /\ Truthy(application, "interestRate")
  /\ Truthy(application, "tenure")

SanctionMessage(application) ==
  Say("congratulations, your loan has been sanctioned", <<LoanNameOf(application)>>,
      <<application.approvedAmount, application.interestRate, application.tenure>>)

(***************************************************************************)
(* masterAgent.ts.  The store is the sessions Map together with the        *)
(* SessionData objects it has ever held: the Map holds references, and a   *)
(* suspended request keeps the reference it started with.                  *)
(***************************************************************************)
Store(map, heap) == [map |-> map, heap |-> heap]

\* sessions.set(sessionId, ref)
MapSet(map, sessionId, ref) ==
  [k \in DOMAIN map \cup {sessionId} |-> IF k = sessionId THEN ref ELSE map[k]]

\* sessions.clear() in place of sessions.delete(sessionId)
MapDeleteAll(map, sessionId) == [k \in {} |-> 0]

\* sessions.delete(sessionId)
MapDelete(map, sessionId) == [k \in DOMAIN map \ {sessionId} |-> map[k]]

\* `LOAN${Date.now().toString(36).toUpperCase()}`
ApplicationId(t) == <<"LOAN", t>>

\* getOrCreateSession that starts a new session at the choice of the loan type
getOrCreateSessionAhead(store, sessionId, t) ==
  IF sessionId \in DOMAIN store.map
  THEN [store |-> store, session |-> store.map[sessionId]]
  ELSE LET newSession ==
             [sessionId |-> sessionId,
              application |-> [applicationId |-> ApplicationId(t),
                               createdAt |-> t, updatedAt |-> t],
              stage |-> "LOAN_TYPE",
              conversationHistory |-> <<>>]
           ref == Len(store.heap) + 1
       IN  [store |-> Store(MapSet(store.map, sessionId, ref),
                            Append(store.heap, newSession)),
            session |-> ref]

getOrCreateSession(store, sessionId, t) ==
  IF sessionId \in DOMAIN store.map
  THEN [store |-> store, session |-> store.map[sessionId]]
  ELSE LET newSession ==
             [sessionId |-> sessionId,
              application |-> [applicationId |-> ApplicationId(t),
                               createdAt |-> t, updatedAt |-> t],
              stage |-> "GREETING",
              conversationHistory |-> <<>>]
           ref == Len(store.heap) + 1
       IN  [store |-> Store(MapSet(store.map, sessionId, ref),
                            Append(store.heap, newSession)),
            session |-> ref]

\* an entry of conversationHistory; its timestamp is written and never read,
\* and is left out of the entry
Entry(role, content) == [role |-> role, content |-> content]

\* updates is an object with some of the keys stage, applicationUpdates,
\* userMessage and assistantMessage; session is a reference
updateSession(store, session, updates, t) ==
  LET old == store.heap[session]
      stage == IF "stage" \in DOMAIN updates /\ updates.stage # ""
               THEN updates.stage ELSE old.stage
      application ==
        IF "applicationUpdates" \in DOMAIN updates
        THEN Spread(Spread(old.application, updates.applicationUpdates), Obj1("updatedAt", t))
        ELSE old.application
      h1 == IF "userMessage" \in DOMAIN updates /\ updates.userMessage # ""
            THEN Append(old.conversationHistory,
                        Entry("user", Say(updates.userMessage, <<>>, <<>>)))
            ELSE old.conversationHistory
      h2 == IF "assistantMessage" \in DOMAIN updates /\ updates.assistantMessage # Silent
            THEN Append(h1, Entry("assistant", updates.assistantMessage))
            ELSE h1
      new == [sessionId |-> old.sessionId, application |-> application,
              stage |-> stage, conversationHistory |-> h2]
  IN  Store(MapSet(store.map, old.sessionId, session),
            [store.heap EXCEPT ![session] = new])

\* sessions.get(sessionId): found is FALSE for undefined
getSessionData(store, sessionId) ==
  IF sessionId \in DOMAIN store.map
  THEN [found |-> TRUE, session |-> store.heap[store.map[sessionId]]]
  ELSE [found |-> FALSE]

getApplicationStatus(session) ==
  IF "decision" \in DOMAIN session.application
     /\ session.application.decision \in {"APPROVED", "REJECTED"}
  THEN session.application.decision
  ELSE "IN_PROGRESS"

NoPdf == <<>>

\* `/downloads/${pdfFilename}`; the file name carries the application id
PdfUrl(applicationId) == <<"/downloads/sanction_letter", applicationId>>

NoCall == [session |-> 0, application |-> EmptyObj, reply |-> Silent]

NoResponse == [reply |-> Silent, status |-> "", pdfUrl |-> NoPdf]

\* the end of handleMasterAgent: the reply goes into the history and out
Respond(store, session, reply, pdfUrl, t) ==
  LET st == updateSession(store, session, [assistantMessage |-> reply], t)
  IN  [store |-> st, done |-> TRUE, call |-> NoCall,
       response |-> [reply |-> reply,
                     status |-> getApplicationStatus(st.heap[session]),
                     pdfUrl |-> pdfUrl]]

\* handleMasterAgent stops at await handleSanctionAgent(updatedApplication)
Suspend(store, session, updatedApplication, reply) ==
  [store |-> store, done |-> FALSE, response |-> NoResponse,
   call |-> [session |-> session, application |-> updatedApplication, reply |-> reply]]

\* DecisionUpdates with the installment computed for the default tenure
DecisionUpdatesDefaultTenure(underwritingResult, tenure) ==
  IF underwritingResult.decision = "APPROVED"
  THEN [decision |-> underwritingResult.decision,
        decisionReason |-> underwritingResult.reason,
        approvedAmount |-> underwritingResult.approvedAmount,
        interestRate |-> underwritingResult.interestRate,
        emi |-> calculateEMI(underwritingResult.approvedAmount,
                             underwritingResult.interestRate, DEFAULT_TENURE)]
  ELSE [decision |-> underwritingResult.decision,
        decisionReason |-> underwritingResult.reason]

\* the decision fields handleMasterAgent writes for a result of the engine
DecisionUpdates(underwritingResult, tenure) ==
  IF underwritingResult.decision = "APPROVED"
  THEN [decision |-> underwritingResult.decision,
        decisionReason |-> underwritingResult.reason,
        approvedAmount |-> underwritingResult.approvedAmount,
        interestRate |-> underwritingResult.interestRate,
        emi |-> calculateEMI(underwritingResult.approvedAmount,
                             underwritingResult.interestRate, tenure)]
  ELSE [decision |-> underwritingResult.decision,
        decisionReason |-> underwritingResult.reason]

\* after the decision is stored: the summary, then the sanction letter for an
\* approval (the request is suspended there) or the rejection reply
Decided(s3, session, underwritingResult, decisionUpdates, t) ==
  LET updatedApplication == Spread(s3.heap[session].application, decisionUpdates)
  IN  IF underwritingResult.decision = "APPROVED"
      THEN IF SanctionValid(updatedApplication)
           THEN Suspend(s3, session, updatedApplication,
                        generateDecisionSummary(updatedApplication, underwritingResult))
           ELSE Respond(s3, session,
                        generateDecisionSummary(updatedApplication, underwritingResult),
                        NoPdf, t)
      ELSE Respond(updateSession(s3, session, [stage |-> "COMPLETED"], t), session,
                   generateRejectionResponse(updatedApplication, underwritingResult.reason),
                   NoPdf, t)

\* the decision is stored together with the verification's updates
StoreDecision(s2, session, updates, underwritingResult, decisionUpdates, t) ==
  Decided(updateSession(s2, session,
                        [applicationUpdates |-> Spread(updates, decisionUpdates),
                         stage |-> "DECISION"], t),
          session, underwritingResult, decisionUpdates, t)

\* the engine has decided on the application merged with the updates
Underwritten(s2, session, updates, underwritingResult, t) ==
  StoreDecision(s2, session, updates, underwritingResult,
                DecisionUpdates(underwritingResult,
                                NumOr(s2.heap[session].application, "tenure",
                                      DEFAULT_TENURE)),
                t)

\* what handleMasterAgent does with the verification agent's response
Verified(s1, session, verificationResponse, t) ==
  LET s2 == updateSession(s1, session,
                          [stage |-> verificationResponse.nextStage,
                           applicationUpdates |-> verificationResponse.applicationUpdates],
                          t)
  IN  IF verificationResponse.nextStage = "UNDERWRITING"
      THEN Underwritten(s2, session, verificationResponse.applicationUpdates,
                        makeUnderwritingDecision(
                          Spread(s2.heap[session].application,
                                 verificationResponse.applicationUpdates)),
                        t)
      ELSE Respond(s2, session, verificationResponse.message, NoPdf, t)

\* case 'VERIFICATION' of handleMasterAgent
VerificationCase(s1, session, message, rnd, t) ==
  Verified(s1, session, handleVerificationAgent(message, s1.heap[session], rnd), t)

\* message.toLowerCase().includes(...) of the follow-up keywords
WantsDownload(message) ==
  Includes(message, "download") \/ Includes(message, "letter") \/ Includes(message, "pdf")

WantsNew(message, approved) ==
  \/ Includes(message, "new")
  \/ Includes(message, "another")
  \/ Includes(message, IF approved THEN "start over" ELSE "try again")

\* FollowUp that lets a rejected applicant go back to the verification
FollowUpReopens(s1, session, message, application, approved, t) ==
  IF approved
  THEN Respond(s1, session,
               IF WantsDownload(message)
               THEN Say("you can download your sanction letter", <<>>, <<>>)
               ELSE Say("your loan has been approved, anything else",
                        <<LoanNameOf(application)>>,
                        <<NumOr(application, "approvedAmount", 0)>>),
               NoPdf, t)
  ELSE Respond(updateSession(s1, session, [stage |-> "VERIFICATION"], t), session,
               Say("sorry, type new application to start fresh", <<>>, <<>>), NoPdf, t)

\* case 'DECISION' / 'COMPLETED' of handleMasterAgent, but for the restart
FollowUp(s1, session, message, application, approved, t) ==
  IF approved
  THEN IF WantsDownload(message)
       THEN Respond(s1, session, Say("you can download your sanction letter", <<>>, <<>>),
                    NoPdf, t)
       ELSE Respond(s1, session,
                    Say("your loan has been approved, anything else",
                        <<LoanNameOf(application)>>,
                        <<NumOr(application, "approvedAmount", 0)>>),
                    NoPdf, t)
  ELSE Respond(s1, session, Say("sorry, type new application to start fresh", <<>>, <<>>),
               NoPdf, t)

RECURSIVE handleMasterAgent(_, _, _, _, _)
\* the switch of handleMasterAgent on the stage of the session, after the
\* user's message has gone into the history
Dispatch(s1, session, stage, application, approved, message, sessionId, rnd, t) ==
  CASE stage \in SalesStages ->
         LET salesResponse == handleSalesAgent(message, s1.heap[session])
         IN  Respond(updateSession(s1, session,
                                   [stage |-> salesResponse.nextStage,
                                    applicationUpdates |-> salesResponse.applicationUpdates],
                                   t),
                     session, salesResponse.message, NoPdf, t)
    [] stage = "VERIFICATION" -> VerificationCase(s1, session, message, rnd, t)
    [] stage = "UNDERWRITING" ->
         Respond(s1, session, Say("your application is being processed", <<>>, <<>>),
                 NoPdf, t)
    [] stage \in {"DECISION", "COMPLETED"} ->
         IF ~(approved /\ WantsDownload(message)) /\ WantsNew(message, approved)
         THEN \* sessions.delete(sessionId); return handleMasterAgent("Hi, ...", sessionId)
              handleMasterAgent(Store(MapDelete(s1.map, sessionId), s1.heap),
                                RESET_TEXT, sessionId, rnd, t)
         ELSE FollowUp(s1, session, message, application, approved, t)
    [] OTHER ->
         Respond(updateSession(s1, session, [stage |-> "GREETING"], t), session,
                 Say("not sure how to proceed, let me start fresh", <<>>, <<>>), NoPdf, t)

\* the session of the request, with the user's message in its history
Entered(s1, session, message, sessionId, rnd, t) ==
  Dispatch(s1, session, s1.heap[session].stage, s1.heap[session].application,
           /\ "decision" \in DOMAIN s1.heap[session].application
           /\ s1.heap[session].application.decision = "APPROVED",
           message, sessionId, rnd, t)

\* the request up to its response or up to the await of the sanction letter;
\* t is the time of the request and rnd what the random generator yields
handleMasterAgent(store, message, sessionId, rnd, t) ==
  LET got == getOrCreateSession(store, sessionId, t)
  IN  Entered(updateSession(got.store, got.session, [userMessage |-> message], t),
              got.session, message, sessionId, rnd, t)

\* the reply of the catch block
RetryPrompt ==
  Say("I encountered an error, could you please repeat your last message", <<>>, <<>>)

\* the request from a fault inside the try block on: at "agent" the delegated
\* agent throws and nothing has been stored but the user's message; at
\* "engine" the fault comes after the verification agent's response has been
\* stored (makeUnderwritingDecision or what follows it throws)
FaultAt(s1, session, message, point, rnd, t) ==
  IF point = "engine"
  THEN Respond(updateSession(s1, session,
                             [stage |-> handleVerificationAgent(message, s1.heap[session],
                                                                rnd).nextStage,
                              applicationUpdates |->
                                handleVerificationAgent(message, s1.heap[session],
                                                        rnd).applicationUpdates],
                             t),
               session, RetryPrompt, NoPdf, t)
  ELSE Respond(s1, session, RetryPrompt, NoPdf, t)

\* handleMasterAgent when a fault is raised at the point
handleMasterAgentFault(store, message, sessionId, point, rnd, t) ==
  LET got == getOrCreateSession(store, sessionId, t)
  IN  FaultAt(updateSession(got.store, got.session, [userMessage |-> message], t),
              got.session, message, point, rnd, t)

\* ResumeAfterSanction that closes the session also without a letter
ResumeAfterSanctionCloses(store, call, ok, t) ==
  IF ok
  THEN Respond(updateSession(store, call.session, [stage |-> "COMPLETED"], t),
               call.session, SanctionMessage(call.application),
               PdfUrl(call.application.applicationId), t)
  ELSE Respond(updateSession(store, call.session, [stage |-> "COMPLETED"], t),
               call.session, call.reply, NoPdf, t)

\* handleMasterAgent from the return of handleSanctionAgent on; ok is whether
\* the letter could be generated, t the time of the resumption
ResumeAfterSanction(store, call, ok, t) ==
  IF ok
  THEN Respond(updateSession(store, call.session, [stage |-> "COMPLETED"], t),
               call.session, SanctionMessage(call.application),
               PdfUrl(call.application.applicationId), t)
  ELSE Respond(store, call.session, call.reply, NoPdf, t)

(***************************************************************************)
(* The server as a state machine.                                          *)
(***************************************************************************)
VARIABLES
  sessions,   \* the sessions Map: session id -> reference of its SessionData
  objects,    \* the SessionData objects created so far, by reference
  awaiting,   \* the requests suspended at await handleSanctionAgent(...)
  now,        \* Date.now()
  response,   \* per client, the last response the chat route has sent
  budget,     \* per client, what the client may still do (bounds the model)
  probe       \* a direct call of the engine: its argument and what it returned

vars == <<sessions, objects, awaiting, now, response, budget, probe>>

\* bounds
MaxRequests == 11
MaxSlips == 1
MaxClears == 1
MaxTime == 2
RandomScores == {649, 650, 799}

\* what the assistant is waiting for from the owner of a session id
Awaited(map, heap, c) ==
  IF c \notin DOMAIN map THEN "greeting"
  ELSE LET o == heap[map[c]]
       IN  CASE o.stage = "GREETING" -> "greeting"
             [] o.stage = "LOAN_TYPE" -> "loanType"
             [] o.stage = "AMOUNT" -> "amount"
             [] o.stage = "TENURE" -> "tenure"
             [] o.stage = "PERSONAL_INFO" ->
                  IF ~Truthy(o.application, "fullName") THEN "fullName"
                  ELSE IF ~Truthy(o.application, "email") THEN "email" ELSE "phone"
             [] o.stage = "EMPLOYMENT_INFO" ->
                  IF ~Truthy(o.application, "employmentType") THEN "employmentType"
                  ELSE IF ~Truthy(o.application, "employer") THEN "employer"
                  ELSE "monthlySalary"
             [] o.stage = "VERIFICATION" -> "pan"
             [] OTHER -> "followUp"

\* the texts a client answers with, and the texts that count as a slip
Answers ==
  [greeting       |-> {"Hi", "Personal Loan"},
   loanType       |-> {"Personal Loan", "home"},
   amount         |-> {"5 lakhs"},
   tenure         |-> {"3 years"},
   fullName       |-> {"Rahul Sharma"},
   email          |-> {"rahul.sharma@email.com"},
   phone          |-> {"9876543210"},
   employmentType |-> {"salaried", "self-employed"},
   employer       |-> {"Tech Solutions Pvt Ltd"},
   monthlySalary  |-> {"75000", "20000"},
   pan            |-> {"ABCDE1234F", "LMNOP9012H", "ZZZZZ9999Z"},
   followUp       |-> {"download letter", "new application", "thanks"}]

Slips ==
  [a \in DOMAIN Answers |-> IF a = "amount" THEN {"??", "9000"}
                            ELSE IF a \in {"greeting", "followUp"} THEN {} ELSE {"??"}]

StageOf(map, heap, c) == IF c \in DOMAIN map THEN heap[map[c]].stage ELSE "GREETING"

\* the generator is consulted only for a PAN that is not on file
Draws(stage, m) ==
  IF stage = "VERIFICATION" /\ Lex[m].pan # "" /\ FindCustomer(Lex[m].pan) = 0
  THEN RandomScores ELSE {RANDOM_MIN}

NoProbe == [application |-> EmptyObj, results |-> <<>>]

\* free: the client sends any of its texts, whatever it is asked for;
\* faults: the faults that may still be raised in its requests
Quota(texts, slips, clears) ==
  [requests |-> MaxRequests, slips |-> slips, clears |-> clears, texts |-> texts,
   free |-> FALSE, faults |-> 0]

\* one client that may say anything of the vocabulary
Init ==
  /\ sessions = <<>>
  /\ objects = <<>>
  /\ awaiting = {}
  /\ now = 1
  /\ response = [c \in {"c1"} |-> NoResponse]
  /\ budget = [c \in {"c1"} |-> Quota(Texts, MaxSlips, MaxClears)]
  /\ probe = NoProbe

\* POST /api/chat: the route calls handleMasterAgent(message.trim(), sessionId)
Chat(c, m) ==
  LET a    == Awaited(sessions, objects, c)
      slip == m \in Slips[a] /\ ~budget[c].free
  IN  /\ budget[c].requests > 0
      /\ m \in budget[c].texts
      /\ m \in Answers[a] \/ budget[c].free \/ (slip /\ budget[c].slips > 0)
      /\ \E rnd \in Draws(StageOf(sessions, objects, c), m) :
           \E r \in {handleMasterAgent(Store(sessions, objects), m, c, rnd, now)} :
             /\ sessions' = r.store.map
             /\ objects' = r.store.heap
             /\ awaiting' = IF r.done THEN awaiting ELSE awaiting \cup {r.call}
             /\ response' = IF r.done THEN [response EXCEPT ![c] = r.response]
                             ELSE response
      /\ budget' = [budget EXCEPT ![c].requests = @ - 1,
                                   ![c].slips = IF slip THEN @ - 1 ELSE @]
      /\ UNCHANGED <<now, probe>>

\* generateSanctionLetter settles and the suspended handleMasterAgent goes on
SanctionDone(call, ok) ==
  /\ call \in awaiting
  /\ \E r \in {ResumeAfterSanction(Store(sessions, objects), call, ok, now)} :
       /\ sessions' = r.store.map
       /\ objects' = r.store.heap
       /\ response' = [response EXCEPT ![objects[call.session].sessionId] = r.response]
  /\ awaiting' = awaiting \ {call}
  /\ UNCHANGED <<now, budget, probe>>

\* DELETE /api/chat/session/:sessionId
ClearSession(c) ==
  /\ c \in DOMAIN sessions
  /\ budget[c].clears > 0
  /\ sessions' = MapDelete(sessions, c)
  /\ budget' = [budget EXCEPT ![c].clears = @ - 1]
  /\ UNCHANGED <<objects, awaiting, now, response, probe>>

\* the clock moves on between two readings of it, or does not
Tick ==
  /\ now < MaxTime
  /\ now' = now + 1
  /\ UNCHANGED <<sessions, objects, awaiting, response, budget, probe>>

Next ==
  \/ \E c \in DOMAIN budget, m \in Texts : Chat(c, m)
  \/ \E call \in awaiting, ok \in BOOLEAN : SanctionDone(call, ok)
  \/ \E c \in DOMAIN budget : ClearSession(c)
  \/ Tick

Spec == Init /\ [][Next]_vars

(***************************************************************************)
(* Two clients, each with its own session id, that follow the same script  *)
(* and use a tax id that is not on file.                                   *)
(***************************************************************************)
Script == {"Personal Loan", "5 lakhs", "3 years", "Rahul Sharma",
           "rahul.sharma@email.com", "9876543210", "salaried",
           "Tech Solutions Pvt Ltd", "75000", "ZZZZZ9999Z", "new application"}

Init2 ==
  /\ sessions = <<>>
  /\ objects = <<>>
  /\ awaiting = {}
  /\ now = 1
  /\ response = [c \in {"c1", "c2"} |-> NoResponse]
  /\ budget = [c \in {"c1", "c2"} |->
                 IF c = "c1" THEN Quota(Script, 0, MaxClears)
                 ELSE Quota(Script \ {"new application"}, 0, 0)]
  /\ probe = NoProbe

Spec2 == Init2 /\ [][Next]_vars

(***************************************************************************)
(* The engine and the verification turn on applications of any shape: the  *)
(* application is drawn, and one call is made on it.                       *)
(***************************************************************************)
\* an application with the fields of v that are not 0 or ""
Drawn(v) ==
  Spread([applicationId |-> ApplicationId(1), createdAt |-> 1, updatedAt |-> 1],
         [f \in {g \in DOMAIN v : IF g \in NumFields THEN v[g] # 0 ELSE v[g] # ""}
            |-> v[f]])

ProbeApplications ==
  {Drawn(v) : v \in [loanType        : {"", "personal"},
                     loanTypeName    : {"Personal Loan"},
                     requestedAmount : {0, 500000},
                     tenure          : {0, 36},
                     fullName        : {"", "Rahul Sharma"},
                     email           : {"rahul.sharma@email.com"},
                     phone           : {"", "9876543210"},
                     employmentType  : {"", "salaried"},
                     monthlySalary   : {0, 24999, 25000, 75000},
                     creditScore     : {0, 649, 650, 750}]}

InitProbe ==
  /\ sessions = <<>>
  /\ objects = <<>>
  /\ awaiting = {}
  /\ now = 1
  /\ response = <<>>
  /\ budget = <<>>
  /\ probe \in {[application |-> a, results |-> <<>>] : a \in ProbeApplications}

\* makeUnderwritingDecision(application)
Decide ==
  /\ probe.results = <<>>
  /\ probe' = [probe EXCEPT !.results =
                 <<[kind |-> "decide",
                    result |-> makeUnderwritingDecision(probe.application)]>>]
  /\ UNCHANGED <<sessions, objects, awaiting, now, response, budget>>

\* a session that holds the application and waits for the tax id
ProbeSession(application) ==
  Store([c \in {"p"} |-> 1],
        <<[sessionId |-> "p", application |-> application, stage |-> "VERIFICATION",
           conversationHistory |-> <<>>]>>)

\* handleMasterAgent(m, "p") on that session
Verify(m, rnd) ==
  /\ probe.results = <<>>
  /\ \E r \in {handleMasterAgent(ProbeSession(probe.application), m, "p", rnd, now)} :
       probe' = [probe EXCEPT !.results =
                  <<[kind |-> "verify", message |-> m, session |-> r.store.heap[1],
                     reply |-> IF r.done THEN r.response.reply ELSE r.call.reply]>>]
  /\ UNCHANGED <<sessions, objects, awaiting, now, response, budget>>

NextProbe ==
  \/ Decide
  \/ \E m \in {"ABCDE1234F", "LMNOP9012H", "ZZZZZ9999Z", "??"}, rnd \in RandomScores :
       Verify(m, rnd)

SpecProbe == InitProbe /\ [][NextProbe]_vars

(***************************************************************************)
(* The server in the middle of a conversation: the state is one that a     *)
(* client has brought about with a prefix of a script, and the client goes *)
(* on with any text.                                                       *)
(***************************************************************************)
MaxTurns == 1
MaxFaults == 1

Scripts ==
  { <<"Personal Loan", "5 lakhs", "3 years", "Rahul Sharma", "rahul.sharma@email.com",
      "9876543210", "salaried", "Tech Solutions Pvt Ltd", "75000", "ABCDE1234F">>,
    <<"Hi", "Personal Loan", "5 lakhs", "3 years", "Rahul Sharma",
      "rahul.sharma@email.com", "9876543210", "self-employed", "", "Tech Solutions Pvt Ltd",
      "75000", "LMNOP9012H">>,
    <<"home", "5 lakhs", "3 years">> }

\* the server after a request of c1 that returned r
Advance(prev, r) ==
  [store |-> r.store,
   awaiting |-> IF r.done THEN prev.awaiting ELSE prev.awaiting \cup {r.call}]

\* the server after one more request of c1 at time 1 (a set of one state)
AfterText(prev, text) ==
  {Advance(prev, r) : r \in {handleMasterAgent(prev.store, text, "c1", RANDOM_MIN, 1)}}

RECURSIVE After(_, _)
\* the server after c1 has sent the first k texts of the script (a set of one
\* state)
After(script, k) ==
  IF k = 0 THEN {[store |-> Store(<<>>, <<>>), awaiting |-> {}]}
  ELSE UNION {AfterText(prev, script[k]) : prev \in After(script, k - 1)}

\* the server after the sanction letters it awaited have been generated
Settled(st) ==
  IF st.awaiting = {} THEN {st}
  ELSE {[store |-> r.store, awaiting |-> {}] :
          r \in {ResumeAfterSanction(st.store, call, TRUE, 1) : call \in st.awaiting}}

\* the states, and the states they settle into
WithSettled(states) == states \cup UNION {Settled(st) : st \in states}

MidStates ==
  UNION {UNION {WithSettled(After(script, k)) : k \in 0..Len(script)} : script \in Scripts}

InitFrom(states, quota) ==
  /\ \E st \in states : /\ sessions = st.store.map
                         /\ objects = st.store.heap
                         /\ awaiting = st.awaiting
  /\ now = 1
  /\ response = [c \in {"c1"} |-> NoResponse]
  /\ budget = [c \in {"c1"} |-> quota]
  /\ probe = NoProbe

InitTurn ==
  InitFrom(MidStates,
           [Quota(Texts, 0, MaxClears) EXCEPT !.requests = MaxTurns, !.free = TRUE])

SpecTurn == InitTurn /\ [][Next]_vars

\* a request of c in which a fault is raised
Fault(c, m, point) ==
  /\ budget[c].requests > 0
  /\ budget[c].faults > 0
  /\ m \in budget[c].texts
  /\ m \in Answers[Awaited(sessions, objects, c)]
  /\ \E rnd \in Draws(StageOf(sessions, objects, c), m) :
       /\ point = "engine" =>
            /\ StageOf(sessions, objects, c) = "VERIFICATION"
            /\ handleVerificationAgent(m, objects[sessions[c]], rnd).nextStage
                 = "UNDERWRITING"
       /\ \E r \in {handleMasterAgentFault(Store(sessions, objects), m, c, point, rnd,
                                            now)} :
            /\ sessions' = r.store.map
            /\ objects' = r.store.heap
            /\ response' = [response EXCEPT ![c] = r.response]
  /\ budget' = [budget EXCEPT ![c].requests = @ - 1, ![c].faults = @ - 1]
  /\ UNCHANGED <<awaiting, now, probe>>

NextFault ==
  \/ Next
  \/ \E c \in DOMAIN budget, m \in Texts, point \in {"agent", "engine"} : Fault(c, m, point)

InitFault ==
  InitFrom(MidStates,
           [Quota(Texts, 0, MaxClears) EXCEPT !.requests = MaxTurns + 1,
                                              !.faults = MaxFaults])

SpecFault == InitFault /\ [][NextFault]_vars

(***************************************************************************)
(* The engine alone, on applications that differ in the values the rules   *)
(* look at: the product, the amount, the tenure, the salary, the score and *)
(* the kind of employment.                                                 *)
(***************************************************************************)
EngineApplications ==
  {Drawn(v) : v \in [loanType        : {"", "personal", "home"},
                     loanTypeName    : {"Personal Loan"},
                     requestedAmount : {10000, 500000, 1000000, 1500000, 5000000},
                     tenure          : {0, 12, 36},
                     monthlySalary   : {0, 24999, 25000, 30000, 75000, 100000},
                     employmentType  : {"salaried", "self-employed"},
                     creditScore     : {0, 649, 650, 699, 700, 749, 750}]}

InitEngine ==
  /\ sessions = <<>>
  /\ objects = <<>>
  /\ awaiting = {}
  /\ now = 1
  /\ response = <<>>
  /\ budget = <<>>
  /\ probe \in {[application |-> a, results |-> <<>>] : a \in EngineApplications}

NextEngine == Decide

SpecEngine == InitEngine /\ [][NextEngine]_vars

(***************************************************************************)
(* The same server with the route that reads a session.                    *)
(***************************************************************************)
MaxReads == 1

SessionIds == {"c1", "nobody"}

\* GET /api/chat/session/:sessionId
GetSession(sessionId) ==
  /\ Len(probe.results) < MaxReads
  /\ probe' = [probe EXCEPT !.results =
                 Append(@, [kind |-> "read", sessionId |-> sessionId,
                            result |-> getSessionData(Store(sessions, objects),
                                                      sessionId)])]
  /\ UNCHANGED <<sessions, objects, awaiting, now, response, budget>>

NextStore ==
  \/ Next
  \/ \E sessionId \in SessionIds : GetSession(sessionId)

InitStore ==
  InitFrom(MidStates, [Quota(Texts, 0, MaxClears) EXCEPT !.requests = MaxTurns])

SpecStore == InitStore /\ [][NextStore]_vars

(***************************************************************************)
(* Properties.  A step of the server belongs to the client whose request   *)
(* it runs: a request of the chat route, the continuation of a suspended   *)
(* request, or a DELETE of the session.                                    *)
(***************************************************************************)
ChatStep(c) == budget'[c].requests < budget[c].requests

ClearStep(c) == budget'[c].clears < budget[c].clears

\* the suspended requests the step continues
Resumed == awaiting \ awaiting'

ResumeStep(c) == \E call \in Resumed : objects[call.session].sessionId = c

StageIndex(stage) == CHOOSE i \in 1..Len(Stages) : Stages[i] = stage

\* the session object a request of c starts on: the one on file or a new one
TurnObject(c) == IF c \in DOMAIN sessions THEN sessions[c] ELSE Len(objects) + 1

\* the text of the request of c in a ChatStep(c), as its session recorded it
TurnText(c) ==
  LET ref == TurnObject(c)
      n   == IF ref <= Len(objects) THEN Len(objects[ref].conversationHistory) ELSE 0
  IN  objects'[ref].conversationHistory[n + 1].content.text

\* the stage of a session object before a step; a new object starts in GREETING
ObjStage(ref) == IF ref <= Len(objects) THEN objects[ref].stage ELSE "GREETING"

\* a request that asks for a new application on a decided session, deletes
\* the session and starts a new one with the text of the restart
ResetTurn(c) ==
  /\ ChatStep(c)
  /\ c \in DOMAIN sessions
  /\ objects[sessions[c]].stage \in {"DECISION", "COMPLETED"}
  /\ WantsNew(TurnText(c), getApplicationStatus(objects[sessions[c]]) = "APPROVED")
  /\ c \in DOMAIN sessions'
  /\ sessions'[c] = Len(objects) + 1
  /\ objects'[sessions'[c]].conversationHistory[1].content.text = RESET_TEXT

\* the continuation of a request whose session object is no longer the one
\* on file for its id: a second request of the same id ran while the first
\* was suspended, and replaced the session
Stale(c) ==
  \E call \in Resumed : /\ objects[call.session].sessionId = c
                        /\ c \in DOMAIN sessions
                        /\ sessions[c] # call.session

\* C1: from one turn on a session id to the next the index of the stage in
\* GREETING < LOAN_TYPE < ... < DECISION < COMPLETED does not decrease, unless
\* the turn is a reset request in DECISION/COMPLETED that deletes the session
\* and restarts it from GREETING.  Turns of one id that overlap are left out.
C1_StageMonotonic ==
  [][\A c \in DOMAIN budget :
       (ChatStep(c) \/ ResumeStep(c)) =>
          \/ StageIndex(StageOf(sessions', objects', c))
               >= StageIndex(StageOf(sessions, objects, c))
          \/ ResetTurn(c)
          \/ Stale(c)]_vars

\* a reset has replaced a decided session by one at an earlier stage, and no
\* DELETE was involved
C1_Witness ==
  \E c \in DOMAIN budget :
    /\ budget[c].clears = MaxClears
    /\ Len(objects) = 2
    /\ c \in DOMAIN sessions /\ sessions[c] = 2
    /\ objects[1].stage \in {"DECISION", "COMPLETED"}
    /\ StageIndex(objects[2].stage) < StageIndex(objects[1].stage)

\* C2: no data-collection stage is skipped but LOAN_TYPE by the GREETING
\* shortcut.  Every session object starts in GREETING, and in every step a
\* sales stage is left only for a sales stage or VERIFICATION, and a sales
\* stage or VERIFICATION is entered only from itself, from the stage just
\* before it, or (AMOUNT) from GREETING: so an object in VERIFICATION has
\* been in AMOUNT, TENURE, PERSONAL_INFO and EMPLOYMENT_INFO, in this order.
C2_NoStageSkipped ==
  [][\A ref \in 1..Len(objects') :
       LET before == ObjStage(ref)
           after  == objects'[ref].stage
       IN  /\ before \in SalesStages => after \in SalesStages \cup {"VERIFICATION"}
           /\ after \in SalesStages \cup {"VERIFICATION"} =>
                \/ after = before
                \/ StageIndex(after) = StageIndex(before) + 1
                \/ before = "GREETING" /\ after = "AMOUNT"]_vars

\* a session that took the GREETING shortcut has reached VERIFICATION
C2_Witness ==
  /\ Len(objects) >= 1
  /\ objects[1].stage = "VERIFICATION"
  /\ objects[1].conversationHistory[2].content.text = "excellent choice, how much"

\* the text cannot be parsed into the datum the assistant is waiting for;
\* GREETING asks for nothing, and any text is taken as the employer's name
Unparsable(datum, m) ==
  CASE datum = "loanType"       -> extractLoanType(m) = NoLoan
    [] datum = "amount"         -> extractAmount(m) = 0
    [] datum = "tenure"         -> extractTenure(m) = 0
    [] datum = "fullName"       -> ~Lex[m].name
    [] datum = "email"          -> Lex[m].email = ""
    [] datum = "phone"          -> Lex[m].phone = ""
    [] datum = "employmentType" ->
         \A needle \in {"salaried", "salary", "employed", "self", "business", "own"} :
           ~Includes(m, needle)
    [] datum = "monthlySalary"  -> extractSalary(m) = 0
    [] datum = "pan"            -> Lex[m].pan = ""
    [] OTHER                    -> FALSE

\* C3: a turn whose text cannot be parsed into the datum its stage needs
\* leaves the stage of the session and every field of its application as
\* they were.
C3_UnparsableChangesNothing ==
  [][\A c \in DOMAIN budget :
       (/\ ChatStep(c)
        /\ c \in DOMAIN sessions
        /\ Unparsable(Awaited(sessions, objects, c), TurnText(c)))
       => /\ objects'[sessions[c]].stage = objects[sessions[c]].stage
          /\ objects'[sessions[c]].application = objects[sessions[c]].application]_vars

DecisionFields == {"decision", "decisionReason", "approvedAmount", "interestRate", "emi"}

\* the decision fields an application carries
DecisionPart(application) ==
  [f \in DecisionFields \cap DOMAIN application |-> application[f]]

\* C4: the engine decides at most once in the life of a session object.  An
\* object gets decision fields only in a turn that finds it undecided in
\* VERIFICATION; once it has them no step changes decision, decisionReason,
\* approvedAmount, interestRate or emi, and none changes its stage, but for
\* the approving turn itself going from DECISION to COMPLETED when its
\* sanction letter is done.  A reset works on a new object.
C4_DecidedOnce ==
  [][\A ref \in 1..Len(objects') :
       IF ref > Len(objects)
       THEN DOMAIN DecisionPart(objects'[ref].application) = {}
       ELSE IF DOMAIN DecisionPart(objects[ref].application) = {}
       THEN DOMAIN DecisionPart(objects'[ref].application) # {} =>
              /\ objects[ref].stage = "VERIFICATION"
              /\ ChatStep(objects[ref].sessionId)
       ELSE /\ DecisionPart(objects'[ref].application)
                 = DecisionPart(objects[ref].application)
            /\ \/ objects'[ref].stage = objects[ref].stage
               \/ /\ \E call \in Resumed : call.session = ref
                  /\ objects[ref].stage = "DECISION"
                  /\ objects'[ref].stage = "COMPLETED"]_vars

\* an approved session has answered a request for the letter after its decision
C4_Witness ==
  \E ref \in 1..Len(objects) :
    /\ getApplicationStatus(objects[ref]) = "APPROVED"
    /\ objects[ref].stage = "COMPLETED"
    /\ \E i \in 1..Len(objects[ref].conversationHistory) :
         /\ objects[ref].conversationHistory[i].role = "user"
         /\ objects[ref].conversationHistory[i].content.text = "download letter"

\* C5: the decision fields are written together or not at all.  An approved
\* application has approvedAmount, interestRate, tenure and emi, and emi is
\* the installment of (approvedAmount, interestRate, tenure), which repays
\* at least the principal; a rejected one has none of approvedAmount,
\* interestRate and emi, and neither has an application without decision.
C5_DecisionAtomic ==
  \A ref \in 1..Len(objects) :
    LET a == objects[ref].application
    IN  IF "decision" \in DOMAIN a /\ a.decision = "APPROVED"
        THEN /\ {"approvedAmount", "interestRate", "tenure", "emi"} \subseteq DOMAIN a
             /\ a.emi = calculateEMI(a.approvedAmount, a.interestRate, a.tenure)
             /\ a.emi * a.tenure >= a.approvedAmount
        ELSE /\ "decision" \in DOMAIN a => a.decision = "REJECTED"
             /\ DOMAIN a \cap {"approvedAmount", "interestRate", "emi"} = {}

\* an approved application carries its installment while its letter is awaited
C5_Witness ==
  /\ Len(objects) >= 1
  /\ getApplicationStatus(objects[1]) = "APPROVED"
  /\ objects[1].application.emi > 0
  /\ objects[1].stage = "DECISION"

\* C6: the engine runs only in a turn in which the verification found every
\* required field, and the credit score, populated.  After a valid tax id
\* with a required field still missing the stage stays VERIFICATION, no
\* decision field is written and the reply names the missing fields.
C6_EngineOnlyWhenComplete ==
  \A i \in 1..Len(probe.results) :
    probe.results[i].kind = "verify" =>
      LET r       == probe.results[i]
          after   == r.session.application
          missing == {f \in {requiredFields[j] : j \in 1..Len(requiredFields)} :
                        ~Truthy(after, f)}
          decided == DOMAIN DecisionPart(after) # {}
      IN  /\ decided => /\ Lex[r.message].pan # ""
                        /\ missing = {}
                        /\ Truthy(after, "creditScore")
          /\ (Lex[r.message].pan # "" /\ missing # {}) =>
               /\ r.session.stage = "VERIFICATION"
               /\ ~decided
               /\ r.reply.text = "PAN verified, we still need"
               /\ {r.reply.names[j] : j \in 1..Len(r.reply.names)}
                    = {fieldLabels[f] : f \in missing}

\* a valid tax id of a customer on file met an application without tenure
C6_Witness ==
  /\ Len(probe.results) = 1
  /\ probe.results[1].kind = "verify"
  /\ probe.results[1].message = "ABCDE1234F"
  /\ ~Truthy(probe.results[1].session.application, "tenure")
  /\ probe.results[1].session.stage = "VERIFICATION"

\* C7: makeUnderwritingDecision rejects every application with a monthly
\* salary below 25,000 and every application with a credit score below 650;
\* the salary is looked at first, so that with both too low the reason is the
\* salary; and a rejection carries no approvedAmount and no interestRate.
C7_RejectionFloors ==
  \A i \in 1..Len(probe.results) :
    probe.results[i].kind = "decide" =>
      LET given   == probe.application
          result  == probe.results[i].result
          income  == IF "monthlySalary" \in DOMAIN given THEN given.monthlySalary ELSE 0
          score   == IF "creditScore" \in DOMAIN given THEN given.creditScore ELSE 0
      IN  /\ income < 25000 => /\ result.decision = "REJECTED"
                               /\ result.reason.text = "salary below minimum"
          /\ score < 650 => result.decision = "REJECTED"
          /\ (income >= 25000 /\ score < 650) =>
               result.reason.text = "credit score below minimum"
          /\ result.decision = "REJECTED" =>
               DOMAIN result \cap {"approvedAmount", "interestRate"} = {}

\* the engine has rejected an application that is below both floors
C7_Witness ==
  /\ Len(probe.results) = 1
  /\ probe.results[1].kind = "decide"
  /\ "monthlySalary" \in DOMAIN probe.application
  /\ probe.application.monthlySalary = 24999
  /\ "creditScore" \in DOMAIN probe.application
  /\ probe.application.creditScore = 649
  /\ probe.results[1].result.decision = "REJECTED"

\* the texts a session has received, in order
UserTexts(session) ==
  LET IsUser(entry) == entry.role = "user"
      users == SelectSeq(session.conversationHistory, IsUser)
  IN  [i \in 1..Len(users) |-> users[i].content.text]

\* the outcome of a decided application
Outcome(application) ==
  [f \in {"decision", "approvedAmount", "interestRate"} \cap DOMAIN application
     |-> application[f]]

\* C8: two sessions that have received the same sequence of texts, the same
\* tax id included, and are decided have the same decision, approved amount
\* and interest rate.
C8_SameTextsSameDecision ==
  \A r1, r2 \in 1..Len(objects) :
    (/\ "decision" \in DOMAIN objects[r1].application
     /\ "decision" \in DOMAIN objects[r2].application
     /\ UserTexts(objects[r1]) = UserTexts(objects[r2]))
    => Outcome(objects[r1].application) = Outcome(objects[r2].application)

\* C10: a step for session id a (a request, also one that resets, the
\* continuation of a suspended request, a DELETE) leaves the session on file
\* for another id b, and the stage, application and history of every session
\* object of b, as they were, and creates no object for b.
C10_SessionsIsolated ==
  [][\A a, b \in DOMAIN budget :
       (a # b /\ (ChatStep(a) \/ ClearStep(a) \/ ResumeStep(a))) =>
          /\ (b \in DOMAIN sessions') <=> (b \in DOMAIN sessions)
          /\ b \in DOMAIN sessions => sessions'[b] = sessions[b]
          /\ \A ref \in 1..Len(objects') :
               IF ref <= Len(objects)
               THEN objects[ref].sessionId = b => objects'[ref] = objects[ref]
               ELSE objects'[ref].sessionId # b]_vars

\* the request of c1 is suspended since time 1 and c2 has had a turn at time 2
C10_Witness ==
  /\ \E call \in awaiting : /\ objects[call.session].sessionId = "c1"
                            /\ objects[call.session].application.updatedAt = 1
  /\ "c2" \in DOMAIN sessions
  /\ objects[sessions["c2"]].application.createdAt = 2

(***************************************************************************)
(* Faults, restarts and the sales stages.                                  *)
(***************************************************************************)
FaultStep(c) == budget'[c].faults < budget[c].faults

\* C11: a request in which a fault is raised answers with the retry prompt
\* and leaves the session as it was before the request: the same object on
\* file, with the same stage, application and history.
C11_FaultLeavesSession ==
  [][\A c \in DOMAIN budget :
       (FaultStep(c) /\ c \in DOMAIN sessions)
       => /\ response'[c].reply = RetryPrompt
          /\ c \in DOMAIN sessions'
          /\ sessions'[c] = sessions[c]
          /\ objects'[sessions[c]] = objects[sessions[c]]]_vars

\* the fields of an application that come from the applicant, the employment,
\* the verification and the decision
CaseFields ==
  {"fullName", "email", "phone", "employmentType", "employer", "monthlySalary",
   "panNumber", "creditScore", "kycVerified"} \cup DecisionFields

WantsRestart(message) ==
  Includes(message, "new") \/ Includes(message, "another") \/ Includes(message, "start over")

\* after the step the id of c has a new session object, whose application
\* has none of the case fields and whose history is the synthetic greeting
\* and its reply, and the request has returned IN_PROGRESS
Restarted(c) ==
  /\ c \in DOMAIN sessions'
  /\ sessions'[c] = Len(objects) + 1
  /\ DOMAIN objects'[sessions'[c]].application \cap CaseFields = {}
  /\ Len(objects'[sessions'[c]].conversationHistory) = 2
  /\ objects'[sessions'[c]].conversationHistory[1] = Entry("user", Say(RESET_TEXT, <<>>, <<>>))
  /\ objects'[sessions'[c]].conversationHistory[2].role = "assistant"
  /\ response'[c].status = "IN_PROGRESS"

\* C12: in DECISION or COMPLETED, approved or rejected, a request whose text
\* contains "new", "another" or "start over" deletes the session and starts
\* a new one under the same id from the synthetic greeting.
C12_RestartReplacesSession ==
  [][\A c \in DOMAIN budget, m \in Texts :
       (/\ Chat(c, m)
        /\ c \in DOMAIN sessions
        /\ objects[sessions[c]].stage \in {"DECISION", "COMPLETED"}
        /\ WantsRestart(m))
       => Restarted(c)]_vars

\* the amount parsed from the text lies outside the bounds of the loan type
OutOfBounds(application, m) ==
  /\ extractAmount(m) # 0
  /\ "loanType" \in DOMAIN application
  /\ FindLoan(application.loanType) # 0
  /\ \/ extractAmount(m) < loanTypes[FindLoan(application.loanType)].minAmount
     \/ extractAmount(m) > loanTypes[FindLoan(application.loanType)].maxAmount

\* C13: in AMOUNT a request whose amount lies below minAmount or above
\* maxAmount of the stored loan type is answered with the corrective prompt,
\* writes no field of the application and leaves the stage at AMOUNT.
C13_OutOfBoundsWritesNothing ==
  [][\A c \in DOMAIN budget, m \in Texts :
       (/\ Chat(c, m)
        /\ c \in DOMAIN sessions
        /\ objects[sessions[c]].stage = "AMOUNT"
        /\ OutOfBounds(objects[sessions[c]].application, m))
       => /\ response'[c].reply.text \in {"the minimum amount is", "the maximum amount is"}
          /\ objects'[sessions[c]].stage = "AMOUNT"
          /\ objects'[sessions[c]].application = objects[sessions[c]].application]_vars

\* the allowed tenures of the loan type of an application
AllowedTenures(application) == loanTypes[FindLoan(application.loanType)].tenureMonths

\* t is the first element of the list among those nearest to d
FirstNearest(list, t, d) ==
  \E i \in 1..Len(list) :
    /\ list[i] = t
    /\ \A j \in 1..Len(list) : Abs(t - d) <= Abs(list[j] - d)
    /\ \A j \in 1..(i - 1) : Abs(list[j] - d) > Abs(t - d)

TenureAllowed ==
  \A ref \in 1..Len(objects) :
    "tenure" \in DOMAIN objects[ref].application
    => \E i \in 1..Len(AllowedTenures(objects[ref].application)) :
         AllowedTenures(objects[ref].application)[i] = objects[ref].application.tenure

\* C14: in TENURE a request with a recognized duration d stores the allowed
\* tenure nearest to d, the first in list order of two equidistant ones, and
\* moves on to PERSONAL_INFO; a stored tenure is always one of the allowed
\* tenures of the loan type.
C14_TenureSnapped ==
  /\ []TenureAllowed
  /\ [][\A c \in DOMAIN budget, m \in Texts :
          (/\ Chat(c, m)
           /\ c \in DOMAIN sessions
           /\ objects[sessions[c]].stage = "TENURE"
           /\ extractTenure(m) # 0)
          => /\ objects'[sessions[c]].stage = "PERSONAL_INFO"
             /\ FirstNearest(AllowedTenures(objects[sessions[c]].application),
                             objects'[sessions[c]].application.tenure,
                             extractTenure(m))]_vars

\* 18 months, as far from 12 as from 24, has been stored as 12
C14_Witness ==
  \E c \in DOMAIN sessions :
    /\ objects[sessions[c]].stage = "PERSONAL_INFO"
    /\ objects[sessions[c]].application.tenure = 12
    /\ Len(objects[sessions[c]].conversationHistory) >= 2
    /\ objects[sessions[c]].conversationHistory[
         Len(objects[sessions[c]].conversationHistory) - 1].content.text = "18 months"

PersonalOrder == <<"fullName", "email", "phone">>

EmploymentOrder == <<"employmentType", "employer", "monthlySalary">>

\* the index of the first field of the order the application lacks, 0 if none
FirstMissing(application, order) ==
  IF \A i \in 1..Len(order) : Truthy(application, order[i]) THEN 0
  ELSE CHOOSE i \in 1..Len(order) :
         /\ ~Truthy(application, order[i])
         /\ \A j \in 1..(i - 1) : Truthy(application, order[j])

\* the step of c keeps the fields of the order that were set, sets none but
\* the first missing one, and leaves the stage for the next one exactly when
\* it sets the last field of the order
Collects(c, order, next) ==
  /\ \A i \in 1..Len(order) :
       IF Truthy(objects[sessions[c]].application, order[i])
       THEN /\ order[i] \in DOMAIN objects'[sessions[c]].application
            /\ objects'[sessions[c]].application[order[i]]
                 = objects[sessions[c]].application[order[i]]
       ELSE Truthy(objects'[sessions[c]].application, order[i])
              => i = FirstMissing(objects[sessions[c]].application, order)
  /\ objects'[sessions[c]].stage
       = IF /\ FirstMissing(objects[sessions[c]].application, order) = Len(order)
            /\ Truthy(objects'[sessions[c]].application, order[Len(order)])
         THEN next
         ELSE objects[sessions[c]].stage

\* every session object whose stage comes after the given one has the fields
AllSetBeyond(stage, order) ==
  \A ref \in 1..Len(objects) :
    StageIndex(objects[ref].stage) > StageIndex(stage)
    => \A i \in 1..Len(order) : Truthy(objects[ref].application, order[i])

\* C15: a turn in PERSONAL_INFO stores at most the first missing one of
\* fullName, email, phone; the stage becomes EMPLOYMENT_INFO in the turn that
\* stores phone and stays PERSONAL_INFO otherwise; every session beyond
\* PERSONAL_INFO has all three.
C15_PersonalInfoInOrder ==
  /\ []AllSetBeyond("PERSONAL_INFO", PersonalOrder)
  /\ [][\A c \in DOMAIN budget, m \in Texts :
          (/\ Chat(c, m)
           /\ c \in DOMAIN sessions
           /\ objects[sessions[c]].stage = "PERSONAL_INFO")
          => Collects(c, PersonalOrder, "EMPLOYMENT_INFO")]_vars

\* a turn has stored the phone number and moved on to EMPLOYMENT_INFO
C15_Witness ==
  \E c \in DOMAIN sessions :
    /\ objects[sessions[c]].stage = "EMPLOYMENT_INFO"
    /\ response[c].reply.text = "great, are you salaried or self-employed"
    /\ Truthy(objects[sessions[c]].application, "phone")
    /\ ~Truthy(objects[sessions[c]].application, "employmentType")

\* C16: a turn in EMPLOYMENT_INFO stores at most the first missing one of
\* employmentType, employer, monthlySalary; the stage becomes VERIFICATION in
\* the turn that stores monthlySalary and in no other; every session in
\* VERIFICATION or later has all three.
C16_EmploymentInfoInOrder ==
  /\ []AllSetBeyond("EMPLOYMENT_INFO", EmploymentOrder)
  /\ [][\A c \in DOMAIN budget, m \in Texts :
          (/\ Chat(c, m)
           /\ c \in DOMAIN sessions
           /\ objects[sessions[c]].stage = "EMPLOYMENT_INFO")
          => Collects(c, EmploymentOrder, "VERIFICATION")]_vars

\* a turn has stored the salary and moved on to VERIFICATION
C16_Witness ==
  \E c \in DOMAIN sessions :
    /\ objects[sessions[c]].stage = "VERIFICATION"
    /\ response[c].reply.text = "last step, your PAN number"
    /\ Truthy(objects[sessions[c]].application, "monthlySalary")
    /\ Truthy(objects[sessions[c]].application, "employer")

\* the data of an application in the order in which the sales agent asks
\* for them
CollectOrder ==
  <<"loanType", "requestedAmount", "tenure", "fullName", "email", "phone",
    "employmentType", "employer", "monthlySalary", "panNumber">>

\* the data a reply of the sales agent asks for
Asked(reply) ==
  CASE reply.text \in {"welcome, which type of loan", "please select a loan type"}
         -> {"loanType"}
    [] reply.text \in {"excellent choice, how much", "great, how much",
                       "the minimum amount is", "the maximum amount is",
                       "please enter a valid loan amount"}
         -> {"requestedAmount"}
    [] reply.text \in {"got it, what tenure", "please specify a valid tenure"}
         -> {"tenure"}
    [] reply.text \in {"tenure set, what is your full name", "please enter your full name"}
         -> {"fullName"}
    [] reply.text \in {"nice to meet you, what is your email address",
                       "please enter a valid email address"}
         -> {"email"}
    [] reply.text \in {"got it, what is your mobile number",
                       "please enter a valid mobile number"}
         -> {"phone"}
    [] reply.text \in {"great, are you salaried or self-employed",
                       "please specify salaried or self-employed"}
         -> {"employmentType"}
    [] reply.text \in {"what is the name of your employer",
                       "what is the name of your business"}
         -> {"employer"}
    [] reply.text \in {"what is your monthly salary", "please enter your monthly salary"}
         -> {"monthlySalary"}
    [] reply.text = "last step, your PAN number"
         -> {"panNumber"}
    [] OTHER -> {}

\* C17: the reply to a turn in a sales stage asks for exactly one datum, the
\* first one that is missing in the application as the turn leaves it.
C17_ReplyAsksFirstMissing ==
  [][\A c \in DOMAIN budget, m \in Texts :
       (/\ Chat(c, m)
        /\ c \in DOMAIN sessions
        /\ objects[sessions[c]].stage \in SalesStages)
       => /\ FirstMissing(objects'[sessions[c]].application, CollectOrder) # 0
          /\ Asked(response'[c].reply)
               = {CollectOrder[FirstMissing(objects'[sessions[c]].application,
                                            CollectOrder)]}]_vars

LoanFields == {"loanType", "loanTypeName", "requestedAmount", "tenure"}

\* the step of c has stored the loan type found in the text, with its name,
\* and has moved the session object to AMOUNT
LoanCaptured(ref, m) ==
  /\ objects'[ref].stage = "AMOUNT"
  /\ {"loanType", "loanTypeName"} \subseteq DOMAIN objects'[ref].application
  /\ objects'[ref].application.loanType = extractLoanType(m).id
  /\ objects'[ref].application.loanTypeName = extractLoanType(m).name

C19_LoanTypeRepeats ==
  [][\A c \in DOMAIN budget, m \in Texts :
       (/\ Chat(c, m)
        /\ c \in DOMAIN sessions
        /\ objects[sessions[c]].stage = "LOAN_TYPE")
       => IF extractLoanType(m) # NoLoan
          THEN LoanCaptured(sessions[c], m)
          ELSE /\ objects'[sessions[c]].stage = "LOAN_TYPE"
               /\ {"loanType", "loanTypeName"}
                    \cap DOMAIN objects'[sessions[c]].application = {}]_vars

\* a turn in LOAN_TYPE has named no loan type and has been asked again
C19_Witness ==
  \E c \in DOMAIN sessions :
    /\ objects[sessions[c]].stage = "LOAN_TYPE"
    /\ response[c].reply.text = "please select a loan type"
    /\ "loanType" \notin DOMAIN objects[sessions[c]].application

\* what the customer on file has for a field of the application
OnFile(customer, f) ==
  CASE f = "fullName"       -> mockCustomers[customer].name
    [] f = "email"          -> mockCustomers[customer].email
    [] f = "phone"          -> mockCustomers[customer].phone
    [] f = "monthlySalary"  -> mockCustomers[customer].salary
    [] f = "employer"       -> mockCustomers[customer].employer
    [] f = "employmentType" -> mockCustomers[customer].employmentType

BackFilled ==
  {"fullName", "email", "phone", "monthlySalary", "employer", "employmentType"}

\* C20: after a verification turn whose PAN matches a customer on file, each
\* of fullName, email, phone, monthlySalary, employer, employmentType that
\* the application had keeps its value, and each one it lacked has the value
\* on file.
C20_BackFillKeepsSupplied ==
  \A i \in 1..Len(probe.results) :
    (/\ probe.results[i].kind = "verify"
     /\ Lex[probe.results[i].message].pan # ""
     /\ FindCustomer(Lex[probe.results[i].message].pan) # 0)
    => \A f \in BackFilled :
         /\ f \in DOMAIN probe.results[i].session.application
         /\ probe.results[i].session.application[f]
              = IF Truthy(probe.application, f)
                THEN probe.application[f]
                ELSE OnFile(FindCustomer(Lex[probe.results[i].message].pan), f)

\* the PAN of Amit Kumar has been verified on an application that named
\* Rahul Sharma and had no phone number: the name is kept, the phone number
\* is the one on file
C20_Witness ==
  /\ Len(probe.results) = 1
  /\ probe.results[1].kind = "verify"
  /\ probe.results[1].message = "LMNOP9012H"
  /\ Truthy(probe.application, "fullName")
  /\ ~Truthy(probe.application, "phone")
  /\ probe.results[1].session.application.fullName = "Rahul Sharma"
  /\ probe.results[1].session.application.phone
       = mockCustomers[FindCustomer("LMNOP9012H")].phone

(***************************************************************************)
(* The record of a session: identity, collected fields, history.           *)
(***************************************************************************)
CollectedFields ==
  {"loanType", "loanTypeName", "requestedAmount", "tenure", "fullName", "email",
   "phone", "employmentType", "employer", "monthlySalary"}

\* C21: no step changes the applicationId or createdAt of a session object,
\* and a collected field that has a value keeps that value in every later
\* step on the object (a reset or a DELETE puts another object on file).
C21_CollectedWriteOnce ==
  [][\A ref \in 1..Len(objects) :
       /\ objects'[ref].application.applicationId = objects[ref].application.applicationId
       /\ objects'[ref].application.createdAt = objects[ref].application.createdAt
       /\ \A f \in CollectedFields :
            Truthy(objects[ref].application, f)
            => /\ f \in DOMAIN objects'[ref].application
               /\ objects'[ref].application[f] = objects[ref].application[f]]_vars

\* the PAN of another customer has been verified on a session that named
\* Rahul Sharma, and the name is still there
C21_Witness ==
  \E c \in DOMAIN sessions :
    /\ response[c] # NoResponse
    /\ "panNumber" \in DOMAIN objects[sessions[c]].application
    /\ objects[sessions[c]].application.panNumber = "LMNOP9012H"
    /\ objects[sessions[c]].application.fullName = "Rahul Sharma"
    /\ objects[sessions[c]].application.monthlySalary = 75000

\* a session object has a credit score only together with the tax id that
\* was verified
ScoreOnlyVerified ==
  \A ref \in 1..Len(objects) :
    "creditScore" \in DOMAIN objects[ref].application
    => /\ "panNumber" \in DOMAIN objects[ref].application
       /\ Truthy(objects[ref].application, "kycVerified")
       /\ StageIndex(objects[ref].stage) > StageIndex("VERIFICATION")

\* C22: the credit score of a session object appears only in a turn in
\* VERIFICATION whose text holds a tax id, no state before that turn has it,
\* and once it is there no step changes it, a later text with another valid
\* tax id included.
C22_CreditScoreOnce ==
  /\ []ScoreOnlyVerified
  /\ [][\A ref \in 1..Len(objects') :
          IF ref <= Len(objects) /\ "creditScore" \in DOMAIN objects[ref].application
          THEN /\ "creditScore" \in DOMAIN objects'[ref].application
               /\ objects'[ref].application.creditScore
                    = objects[ref].application.creditScore
          ELSE "creditScore" \in DOMAIN objects'[ref].application
               => /\ ref <= Len(objects)
                  /\ objects[ref].stage = "VERIFICATION"
                  /\ \E c \in DOMAIN budget, m \in Texts :
                       /\ Chat(c, m)
                       /\ c \in DOMAIN sessions
                       /\ sessions[c] = ref
                       /\ Lex[m].pan # ""]_vars

\* a session verified with the PAN of Rahul Sharma (score 750) has been sent
\* the PAN of Amit Kumar (score 620) afterwards and still has the score 750
C22_Witness ==
  \E c \in DOMAIN sessions :
    /\ "creditScore" \in DOMAIN objects[sessions[c]].application
    /\ objects[sessions[c]].application.creditScore = 750
    /\ objects[sessions[c]].application.panNumber = "ABCDE1234F"
    /\ Len(objects[sessions[c]].conversationHistory) >= 2
    /\ objects[sessions[c]].conversationHistory[
         Len(objects[sessions[c]].conversationHistory) - 1].content.text = "LMNOP9012H"

\* old is a prefix of new
IsPrefix(old, new) ==
  /\ Len(old) <= Len(new)
  /\ \A i \in 1..Len(old) : new[i] = old[i]

\* the history of a session object
History(ref) == objects[ref].conversationHistory

\* C23: a request on a session on file that is not a restart leaves the old
\* history as a prefix of the new one and appends the user's text, followed
\* by the reply once the request has returned.
C23_HistoryAppendOnly ==
  [][\A c \in DOMAIN budget, m \in Texts :
       (/\ Chat(c, m)
        /\ c \in DOMAIN sessions
        /\ c \in DOMAIN sessions'
        /\ sessions'[c] = sessions[c])
       => /\ IsPrefix(History(sessions[c]), objects'[sessions[c]].conversationHistory)
          /\ Len(objects'[sessions[c]].conversationHistory) > Len(History(sessions[c]))
          /\ objects'[sessions[c]].conversationHistory[Len(History(sessions[c])) + 1]
               = Entry("user", Say(m, <<>>, <<>>))
          /\ awaiting' = awaiting
             => objects'[sessions[c]].conversationHistory
                  = History(sessions[c])
                      \o <<Entry("user", Say(m, <<>>, <<>>)),
                           Entry("assistant", response'[c].reply)>>]_vars

\* what getOrCreateSession does in the state: nothing for an id on file, and
\* for any other id one more object, in GREETING, with an empty history and
\* an application of applicationId, createdAt and updatedAt
CreatesLazily ==
  \A sessionId \in SessionIds :
    IF sessionId \in DOMAIN sessions
    THEN getOrCreateSession(Store(sessions, objects), sessionId, now)
           = [store |-> Store(sessions, objects), session |-> sessions[sessionId]]
    ELSE getOrCreateSession(Store(sessions, objects), sessionId, now)
           = [store |-> Store(MapSet(sessions, sessionId, Len(objects) + 1),
                              Append(objects,
                                     [sessionId |-> sessionId,
                                      application |->
                                        [applicationId |-> ApplicationId(now),
                                         createdAt |-> now, updatedAt |-> now],
                                      stage |-> "GREETING",
                                      conversationHistory |-> <<>>])),
              session |-> Len(objects) + 1]

\* the step has put one more session object on file for c, and left it as
\* the first turn with text m leaves a new session
FirstTurn(c, m) ==
  /\ Len(objects') = Len(objects) + 1
  /\ c \in DOMAIN sessions'
  /\ sessions'[c] = Len(objects')
  /\ objects'[Len(objects')].sessionId = c
  /\ objects'[Len(objects')].application.applicationId = ApplicationId(now)
  /\ objects'[Len(objects')].application.createdAt = now
  /\ DOMAIN objects'[Len(objects')].application
       \subseteq {"applicationId", "createdAt", "updatedAt", "loanType", "loanTypeName"}
  /\ objects'[Len(objects')].conversationHistory
       = (IF m = "" THEN <<>> ELSE <<Entry("user", Say(m, <<>>, <<>>))>>)
           \o <<Entry("assistant", response'[c].reply)>>
  /\ response'[c].reply.text
       = IF extractLoanType(m) # NoLoan
         THEN "excellent choice, how much" ELSE "welcome, which type of loan"

\* C24: a session object is created only in a request for an id that is not
\* on file (the first message for the id, or the synthetic greeting that
\* follows the deletion in a restart); it starts in GREETING with an empty
\* history and an application of applicationId, createdAt and updatedAt;
\* reading an id that is not on file returns nothing and creates nothing.
C24_CreatedLazily ==
  /\ []CreatesLazily
  /\ [][/\ Len(objects') >= Len(objects)
        /\ Len(objects') > Len(objects)
           => \E c \in DOMAIN budget, m \in Texts :
                /\ Chat(c, m)
                /\ IF c \in DOMAIN sessions
                   THEN /\ objects[sessions[c]].stage \in {"DECISION", "COMPLETED"}
                        /\ FirstTurn(c, RESET_TEXT)
                   ELSE FirstTurn(c, m)
        /\ \A c \in DOMAIN budget :
             (ChatStep(c) /\ c \notin DOMAIN sessions) => Len(objects') > Len(objects)
        /\ probe' # probe
           => /\ sessions' = sessions
              /\ objects' = objects
              /\ Len(probe'.results) = Len(probe.results) + 1
              /\ probe'.results[Len(probe'.results)].sessionId \notin DOMAIN sessions
                   => ~probe'.results[Len(probe'.results)].result.found]_vars

\* an id that is not on file has been read, nothing was found, and the id
\* is still not on file, while another session is
C24_Witness ==
  /\ Len(probe.results) = 1
  /\ probe.results[1].sessionId = "nobody"
  /\ ~probe.results[1].result.found
  /\ "nobody" \notin DOMAIN sessions
  /\ "c1" \in DOMAIN sessions

(***************************************************************************)
(* The terms of a decision.  Rates are in tenths of a percent.             *)
(***************************************************************************)
\* the values the engine reads from the application it is given
Given(field, default) ==
  IF field \in DOMAIN probe.application /\ probe.application[field] # 0
  THEN probe.application[field] ELSE default

\* the base rate of the product of the application, 12% without a product
BaseRate ==
  IF "loanType" \in DOMAIN probe.application
  THEN CHOOSE rate \in {loanTypes[i].interestRate : i \in 1..Len(loanTypes)} :
         \E i \in 1..Len(loanTypes) : /\ loanTypes[i].id = probe.application.loanType
                                      /\ loanTypes[i].interestRate = rate
  ELSE 120

Decisions == {probe.results[i].result : i \in 1..Len(probe.results)}

\* C25: every approval carries the base rate of the product plus 0 for a
\* credit score of 750 or more, plus 0.5 for 700 to 749 and plus 1.0 for 650
\* to 699, whatever the salary, the amount and the tenure; no approval has a
\* score below 650, so that the tier of plus 2.0 is never used.
C25_RateByCreditTier ==
  \A result \in Decisions :
    result.decision = "APPROVED" =>
      /\ Given("creditScore", 0) >= 650
      /\ result.interestRate
           = BaseRate + (IF Given("creditScore", 0) >= 750 THEN 0
                         ELSE IF Given("creditScore", 0) >= 700 THEN 5
                         ELSE 10)

\* a home loan approved at a score of 700: 8.5% and 0.5%
C25_Witness ==
  /\ Len(probe.results) = 1
  /\ probe.results[1].result.decision = "APPROVED"
  /\ "loanType" \in DOMAIN probe.application
  /\ probe.application.loanType = "home"
  /\ Given("creditScore", 0) = 700
  /\ probe.results[1].result.interestRate = 90

\* the four components of the risk score, from the values of the application
CreditTier ==
  IF Given("creditScore", 0) = 0 THEN 0
  ELSE IF Given("creditScore", 0) >= 750 THEN 40
  ELSE IF Given("creditScore", 0) >= 700 THEN 30
  ELSE IF Given("creditScore", 0) >= 650 THEN 20
  ELSE 5

SalaryTier ==
  IF Given("monthlySalary", 0) = 0 THEN 0
  ELSE IF Given("monthlySalary", 0) >= 100000 THEN 30
  ELSE IF Given("monthlySalary", 0) >= 50000 THEN 25
  ELSE IF Given("monthlySalary", 0) >= 25000 THEN 15
  ELSE 5

EmploymentTier ==
  IF "employmentType" \in DOMAIN probe.application
     /\ probe.application.employmentType = "salaried" THEN 20 ELSE 12

IncomeTier ==
  IF Given("requestedAmount", 0) = 0 \/ Given("monthlySalary", 0) = 0 THEN 0
  ELSE IF Given("requestedAmount", 0) <= 24 * Given("monthlySalary", 0) THEN 10
  ELSE IF Given("requestedAmount", 0) <= 48 * Given("monthlySalary", 0) THEN 7
  ELSE IF Given("requestedAmount", 0) <= 72 * Given("monthlySalary", 0) THEN 4
  ELSE 0

\* C26: whichever rule decides (either rejection, the approval at the cap,
\* the adjusted approval or the approval in full), the risk score of the
\* result is the sum of the credit tier, the salary tier, 20 for salaried or
\* 12 otherwise, and the tier of the amount against the annual income; it is
\* between 0 and 100.
C26_RiskScoreSameOnEveryBranch ==
  \A result \in Decisions :
    /\ result.riskScore \in 0..100
    /\ result.riskScore = CreditTier + SalaryTier + EmploymentTier + IncomeTier

\* an approval at the cap carries the highest score, 100, and the amount
\* approved is not the one the score was computed from
C26_Witness ==
  /\ Len(probe.results) = 1
  /\ probe.results[1].result.decision = "APPROVED"
  /\ probe.results[1].result.reason.text = "reduced to eligible amount"
  /\ probe.results[1].result.riskScore = 100
  /\ probe.results[1].result.approvedAmount < Given("requestedAmount", 0)

\* the amount asked for is above the cap at the rate of the result
AboveCap(result) ==
  /\ result.decision = "APPROVED"
  /\ Given("requestedAmount", 0)
       > calculateMaxEligibleAmount(Given("monthlySalary", 0), Given("tenure", 12),
                                    result.interestRate)

\* the installment of an amount at the rate of the result and the tenure asked
Installment(amount, result) ==
  calculateEMI(amount, result.interestRate, Given("tenure", 12))

\* C27: when the amount asked for is above the cap, the installment of the
\* amount approved, at the rate assigned and over the tenure asked for, is
\* at most half the salary plus 1.
C27_CappedInstallmentAffordable ==
  \A result \in Decisions :
    AboveCap(result) =>
      2 * Installment(result.approvedAmount, result) <= Given("monthlySalary", 0) + 2

\* salary 30,000, 12 months, 12%: 160,000 is approved in place of 500,000
C27_Witness ==
  /\ Len(probe.results) = 1
  /\ AboveCap(probe.results[1].result)
  /\ Given("monthlySalary", 0) = 30000
  /\ Given("tenure", 12) = 12
  /\ probe.results[1].result.interestRate = 120
  /\ Given("requestedAmount", 0) = 500000
  /\ probe.results[1].result.approvedAmount = 160000

\* C28: when neither floor rejects and the amount asked for is above the cap,
\* the application is approved for the cap: a multiple of 10,000 below the
\* amount asked for, the largest one whose installment fits in half the
\* salary.
C28_ApprovedAtCap ==
  /\ \A result \in Decisions :
       AboveCap(result) =>
         /\ result.reason.text = "reduced to eligible amount"
         /\ result.approvedAmount
              = calculateMaxEligibleAmount(Given("monthlySalary", 0), Given("tenure", 12),
                                           result.interestRate)
         /\ result.approvedAmount % 10000 = 0
         /\ result.approvedAmount < Given("requestedAmount", 0)
         /\ 2 * Installment(result.approvedAmount, result) <= Given("monthlySalary", 0)
         /\ 2 * Installment(result.approvedAmount + 10000, result)
              > Given("monthlySalary", 0)
  /\ \A result \in Decisions :
       (/\ Given("monthlySalary", 0) >= 25000
        /\ Given("creditScore", 0) >= 650
        /\ Given("requestedAmount", 0)
             > calculateMaxEligibleAmount(Given("monthlySalary", 0), Given("tenure", 12),
                                          getInterestRate(Given("creditScore", 0), BaseRate)))
       => /\ result.decision = "APPROVED"
          /\ AboveCap(result)

\* a home loan of 5,000,000 over 36 months on a salary of 100,000 is approved
\* for less
C28_Witness ==
  /\ Len(probe.results) = 1
  /\ AboveCap(probe.results[1].result)
  /\ Given("monthlySalary", 0) = 100000
  /\ Given("tenure", 12) = 36
  /\ Given("requestedAmount", 0) = 5000000
  /\ probe.results[1].result.approvedAmount < 5000000
  /\ probe.results[1].result.approvedAmount > 0

\* C29: an application with a salary of 25,000 or more and a credit score of
\* 650 or more, whose amount is within the cap and whose installment is at
\* most half the salary, is approved for exactly the amount asked for, at
\* the base rate of the product plus the tier of the score.
C29_ApprovedInFull ==
  \A result \in Decisions :
    (/\ Given("monthlySalary", 0) >= 25000
     /\ Given("creditScore", 0) >= 650
     /\ Given("requestedAmount", 0)
          <= calculateMaxEligibleAmount(Given("monthlySalary", 0), Given("tenure", 12),
                                        getInterestRate(Given("creditScore", 0), BaseRate))
     /\ 2 * calculateEMI(Given("requestedAmount", 0),
                         getInterestRate(Given("creditScore", 0), BaseRate),
                         Given("tenure", 12))
          <= Given("monthlySalary", 0))
    => /\ result.decision = "APPROVED"
       /\ result.reason.text = "meets all criteria"
       /\ result.approvedAmount = Given("requestedAmount", 0)
       /\ result.interestRate = getInterestRate(Given("creditScore", 0), BaseRate)

\* salary 75,000, score 750, a personal loan of 500,000 over 36 months:
\* approved for 500,000 at 12.5%
C29_Witness ==
  /\ Len(probe.results) = 1
  /\ Given("monthlySalary", 0) = 75000
  /\ Given("creditScore", 0) = 750
  /\ "loanType" \in DOMAIN probe.application
  /\ probe.application.loanType = "personal"
  /\ Given("requestedAmount", 0) = 500000
  /\ Given("tenure", 12) = 36
  /\ probe.results[1].result.decision = "APPROVED"
  /\ probe.results[1].result.interestRate = 125
  /\ probe.results[1].result.approvedAmount = 500000

(***************************************************************************)
(* What a turn returns.                                                    *)
(***************************************************************************)
\* the status that goes with an application
StatusOf(application) ==
  IF "decision" \in DOMAIN application /\ application.decision = "APPROVED"
  THEN "APPROVED"
  ELSE IF "decision" \in DOMAIN application /\ application.decision = "REJECTED"
  THEN "REJECTED"
  ELSE "IN_PROGRESS"

\* the step returns to c the status of the session object ref, and a pdfUrl
\* only with APPROVED
Returned(c, ref) ==
  /\ response'[c].status = StatusOf(objects'[ref].application)
  /\ response'[c].pdfUrl # NoPdf => response'[c].status = "APPROVED"

\* every turn returns the status of its session and a pdfUrl only with
\* APPROVED; a turn that suspends at the sanction letter returns when it is
\* resumed
StatusReturned ==
  \A c \in DOMAIN budget :
    /\ (ChatStep(c) /\ awaiting' = awaiting) => Returned(c, sessions'[c])
    /\ \A call \in Resumed :
         objects[call.session].sessionId = c => Returned(c, call.session)

\* C30: every turn returns APPROVED exactly when the application of its
\* session has the decision APPROVED, REJECTED exactly when it has REJECTED,
\* and IN_PROGRESS otherwise; a pdfUrl is returned only with APPROVED; and the
\* turn in which the loan is approved, the only one that waits for the
\* sanction letter, returns a pdfUrl.
C30_StatusAndLetter ==
  [][/\ StatusReturned
     /\ \A call \in Resumed :
          response'[objects[call.session].sessionId].pdfUrl # NoPdf]_vars

LetterSent(ref) ==
  \E i \in 1..Len(objects[ref].conversationHistory) :
    /\ objects[ref].conversationHistory[i].role = "assistant"
    /\ objects[ref].conversationHistory[i].content.text
         = "congratulations, your loan has been sanctioned"

Complete(ref) ==
  \A j \in 1..Len(requiredFields) : Truthy(objects[ref].application, requiredFields[j])

VerificationComplete ==
  \A ref \in 1..Len(objects) : objects[ref].stage = "VERIFICATION" => Complete(ref)

\* C33: a session object in VERIFICATION has all eight required fields
\* populated; so a turn in VERIFICATION whose text holds a valid tax id
\* stores a decision in that turn, and no turn is answered with the list of
\* fields that are still needed.
C33_VerificationFindsAllFields ==
  /\ []VerificationComplete
  /\ [][\A c \in DOMAIN budget, m \in Texts :
          (/\ Chat(c, m)
           /\ c \in DOMAIN sessions
           /\ objects[sessions[c]].stage = "VERIFICATION")
          => /\ Lex[m].pan # ""
                => "decision" \in DOMAIN objects'[sessions[c]].application
             /\ awaiting' = awaiting
                => response'[c].reply.text # "PAN verified, we still need"]_vars

\* a tax id has been given in VERIFICATION and the application, complete,
\* has its decision
C33_Witness ==
  \E c \in DOMAIN sessions :
    /\ Complete(sessions[c])
    /\ Truthy(objects[sessions[c]].application, "panNumber")
    /\ "decision" \in DOMAIN objects[sessions[c]].application
    /\ objects[sessions[c]].stage = "COMPLETED"
    /\ response[c].status = "REJECTED"
    /\ response[c].reply.text = "we regret to inform you"

\* C34: a session object that is no longer in the sessions Map, because its
\* id was deleted by a reset or by clearSession, is never put back into it:
\* no step, the continuation of a turn that waited for the sanction letter
\* included, makes the Map point at it again.
C34_DeletedStaysDeleted ==
  [][\A ref \in 1..Len(objects) :
       (\A c \in DOMAIN sessions : sessions[c] # ref)
       => (\A c \in DOMAIN sessions' : sessions'[c] # ref)]_vars

\* Math.floor(salary * 0.5 * tenure * 0.7): the amount of the recheck
Haircut == (7 * Given("monthlySalary", 0) * Given("tenure", 12)) \div 20

\* C35: no approval is for more than the amount asked for: the approval at
\* the cap is below it, the approval in full equals it, and whenever the
\* installment of the amount asked for exceeds half the salary, which is
\* when the recheck adjusts, the amount of the recheck is below it.
C35_ApprovedAtMostRequested ==
  \A result \in Decisions :
    /\ result.decision = "APPROVED"
         => result.approvedAmount <= Given("requestedAmount", 0)
    /\ (/\ result.decision = "APPROVED"
        /\ 2 * Installment(Given("requestedAmount", 0), result) > Given("monthlySalary", 0))
       => Haircut <= Given("requestedAmount", 0)

\* on a salary of 25,000 a request of 1,500,000 over 36 months is approved
\* for less, and the amount of the recheck is lower still
C35_Witness ==
  /\ Len(probe.results) = 1
  /\ probe.results[1].result.decision = "APPROVED"
  /\ Given("monthlySalary", 0) = 25000
  /\ Given("requestedAmount", 0) = 1500000
  /\ Given("tenure", 12) = 36
  /\ probe.results[1].result.approvedAmount < 1500000
  /\ Haircut < probe.results[1].result.approvedAmount

\* C36: an application is rejected only for a monthly salary below 25,000
\* or a credit score below 650: with a salary of 25,000 or more and a score
\* of 650 or more it is approved, for the amount asked for or for less,
\* whatever the amount, the tenure, the product and the kind of employment.
C36_OnlyTheFloorsReject ==
  \A result \in Decisions :
    /\ (Given("monthlySalary", 0) >= 25000 /\ Given("creditScore", 0) >= 650)
         => /\ result.decision = "APPROVED"
            /\ result.approvedAmount > 0
    /\ result.decision \in {"APPROVED", "REJECTED"}
    /\ result.decision = "REJECTED"
         => \/ /\ Given("monthlySalary", 0) < 25000
               /\ result.reason.text = "salary below minimum"
            \/ /\ Given("creditScore", 0) < 650
               /\ result.reason.text = "credit score below minimum"

\* salary 25,000 and score 650, the two floors themselves, with the largest
\* amount: approved for less
C36_Witness ==
  /\ Len(probe.results) = 1
  /\ Given("monthlySalary", 0) = 25000
  /\ Given("creditScore", 0) = 650
  /\ Given("requestedAmount", 0) = 5000000
  /\ probe.results[1].result.decision = "APPROVED"
  /\ probe.results[1].result.approvedAmount < 5000000

(***************************************************************************)
(* Progress under valid input.                                             *)
(***************************************************************************)
\* the turns a session still needs, by what it is waiting for
TurnsLeft ==
  [greeting |-> 11, loanType |-> 10, amount |-> 9, tenure |-> 8, fullName |-> 7,
   email |-> 6, phone |-> 5, employmentType |-> 4, employer |-> 3,
   monthlySalary |-> 2, pan |-> 1, followUp |-> 0]

\* the requests c has made, and whether all of them were valid answers
TurnsOf(c) == MaxRequests - budget[c].requests

AllValid(c) == budget[c].slips = MaxSlips /\ budget[c].clears = MaxClears

\* an application of c has been decided
EverDecided(c) ==
  \E ref \in 1..Len(objects) : /\ objects[ref].sessionId = c
                               /\ "decision" \in DOMAIN objects[ref].application
                               /\ objects[ref].stage \in {"DECISION", "COMPLETED"}

\* the first text of c named a loan product
NamedProduct(c) ==
  \E ref \in 1..Len(objects) :
    /\ objects[ref].sessionId = c
    /\ \A other \in 1..(ref - 1) : objects[other].sessionId # c
    /\ extractLoanType(objects[ref].conversationHistory[1].content.text) # NoLoan

C38_EmploymentTypeAsStated ==
  [][\A c \in DOMAIN budget, m \in {"salaried", "self-employed"} :
       (/\ Chat(c, m)
        /\ Awaited(sessions, objects, c) = "employmentType")
       => /\ "employmentType" \in DOMAIN objects'[sessions'[c]].application
          /\ objects'[sessions'[c]].application.employmentType = m]_vars

\* C39: two session objects, whether of two session ids or of one id before
\* and after a reset, never carry the same applicationId.
C39_ApplicationIdsDistinct ==
  \A ref \in 1..Len(objects), other \in 1..Len(objects) :
    ref # other
    => objects[ref].application.applicationId # objects[other].application.applicationId

====
